---------------------------- MODULE Spec2Model ----------------------------
(***************************************************************************)
(* Model of the combo visualizer (src/combo/combo.ino): one shared audio   *)
(* front end, three rendering engines (Trail, Lava, Spectrum) and the mode *)
(* controller that switches between them.                                  *)
(*                                                                         *)
(* Numbers.  The sketch computes in float.  Here every real quantity is a  *)
(* fixed-point integer with FP units per 1.0, and every float constant is  *)
(* written as the ratio the source spells out (0.7 is 7/10, 0.993 is       *)
(* 993/1000); products are rounded down.  A float to uint8_t or int        *)
(* conversion truncates, as on the target.                                 *)
(*                                                                         *)
(* Time.  millis is the value millis() returns during the current cycle;   *)
(* it advances once per cycle, while the audio is being sampled.           *)
(*                                                                         *)
(* The LED strip is the pixel store behind setPixelColor / getPixelColor / *)
(* clear; the wire protocol behind show() is not modelled.                 *)
(***************************************************************************)
EXTENDS Integers, Sequences, FiniteSets, TLC

(***************************************************************************)
(* Bounds of the model.                                                    *)
(***************************************************************************)
FP == 1000                \* fixed-point units per 1.0
MaxCycles == 5            \* loop() iterations explored under Spec
MaxTourCycles == 8        \* loop() iterations explored under TourSpec
MaxNoisyCycles == 3       \* loop() iterations before the silence of SilenceSpec
MaxSilentCycles == 50     \* loop() iterations of silence explored under SilenceSpec
MaxDegenerateCycles == 3  \* loop() iterations explored under DegenerateSpec
MaxPulseCycles == 19      \* loop() iterations explored under PoolSpec
ShortCycleMs == 25        \* duration of an ordinary cycle, in ms
LoudMagnitude == 600      \* bin magnitude of the loud test spectra
DcMagnitude == 900        \* magnitude of bin 0 (DC) in the loud test spectra

(***************************************************************************)
(* Configuration of the sketch.                                            *)
(***************************************************************************)
NUM_LEDS == 120
SAMPLES == 64
NUM_BINS == SAMPLES \div 2

SWITCH_PERIODIC == TRUE
SWITCH_ON_SPIKE == TRUE
SWITCH_INTERVAL_MS == 90000
MIN_MODE_TIME_MS == 30000
SPIKE_THRESHOLD_PCT == 50          \* SPIKE_THRESHOLD = 0.5
SPIKE_DELTA_PCT == 25              \* cur > last + 0.25
AUDIO_FLOOR == 50                  \* the literal 50 of both loudness trackers
AUDIO_PEAK_INIT == 100             \* globalAudioPeak = 100, lavaAudioPeak = 100

MODE_TRAIL == 0
MODE_LAVA == 1
MODE_SPECTRUM == 2
NUM_MODES == 3

TRAIL_REVERSE == TRUE
TRAIL_THRESHOLD_PCT == 70          \* TRAIL_THRESHOLD = 0.70
TRAIL_USE_INTENSITY == TRUE
TRAIL_SCROLL_MS == 50
TRAIL_FADE_PCT == 92               \* TRAIL_FADE = 0.92
TRAIL_REALTIME_LEDS == 8
TRAIL_NUM_BANDS == 8
TRAIL_BAND_END == 32

LAVA_MAX_BLOBS == 8
LAVA_FADE_RATE_PCT == 92           \* LAVA_FADE_RATE = 0.92
LAVA_DRIFT_SPEED_PCT == 30         \* LAVA_DRIFT_SPEED = 0.3
LAVA_SPAWN_SIZE == 10
LAVA_SHRINK_RATE_PCT == 97         \* LAVA_SHRINK_RATE = 0.97
LAVA_TRIGGER_THRESHOLD_PCT == 30   \* LAVA_TRIGGER_THRESHOLD = 0.3
LAVA_TRIGGER_DELTA_PCT == 10       \* normalizedAudio > normalizedLast + 0.1
LAVA_COLOR_MODE == 1
LAVA_NUM_BANDS == 6
LAVA_BAND_PEAK_INIT == 100         \* lavaBandPeaks[i] = 100
LAVA_MIN_BRIGHTNESS_PCT == 2       \* brightness < 0.02
LAVA_MIN_SIZE == 1                 \* size < 1
LAVA_SPAWN_MARGIN == 10            \* random(10, NUM_LEDS - 10)

SPECTRUM_SENSITIVITY_PCT == 150    \* SPECTRUM_SENSITIVITY = 1.5
SPECTRUM_REVERSE == FALSE
SPECTRUM_RESOLUTION == 4
SPECTRUM_NOISE_LOW == 50
SPECTRUM_NOISE_MID == 60
SPECTRUM_NOISE_HIGH == 80
SPECTRUM_CUTOFF_PCT == 8           \* intensity >= 0.08
SPECTRUM_R == 0
SPECTRUM_G == 255
SPECTRUM_B == 0
SPECTRUM_ACTIVE_LEDS == NUM_LEDS \div SPECTRUM_RESOLUTION

(***************************************************************************)
(* Arithmetic helpers.                                                     *)
(***************************************************************************)
\* x as a fixed-point number
Fx(x) == x * FP

\* p per cent as a fixed-point number
Pct(p) == (p * FP) \div 100

\* constrain(x, lo, hi) of Arduino.h
Constrain(x, lo, hi) == IF x < lo THEN lo ELSE IF x > hi THEN hi ELSE x

Min(a, b) == IF a < b THEN a ELSE b
Max(a, b) == IF a > b THEN a ELSE b

\* (int)x of a fixed-point x: truncation toward zero
Trunc(x) == IF x >= 0 THEN x \div FP ELSE -((-x) \div FP)

\* strip.Color(r, g, b)
Color(r, g, b) == r * 65536 + g * 256 + b
Red(c) == (c \div 65536) % 256
Green(c) == (c \div 256) % 256
Blue(c) == c % 256

\* (uint8_t)(channel * f) for a fixed-point factor f in [0, 1]
ScaleChannel(ch, f) == (ch * f) \div FP


RECURSIVE SumBins(_, _, _)
\* vReal[from] + ... + vReal[to - 1]
SumBins(v, from, to) == IF from >= to THEN 0 ELSE v[from] + SumBins(v, from + 1, to)

(***************************************************************************)
(* State.                                                                  *)
(***************************************************************************)
VARIABLES
    pc,                    \* position inside loop(): "sample", "switch", "update"
    millis,                \* the clock read by millis() in this cycle
    vReal,                 \* magnitude spectrum of this cycle, bins 0 .. NUM_BINS-1
    currentMode, lastSwitch, lastSpikeSwitch,
    globalAudioLevel, globalAudioPeak, globalLastAudioLevel,
    trailBandPeaks, trailLastScroll,
    lavaBlobs, lavaBandPeaks, lavaDominantBand,
    lavaAudioLevel, lavaAudioPeak, lavaLastAudioLevel,
    spectrumBinPeaks,
    strip,                 \* pixel store of the LED strip, index 0 .. NUM_LEDS-1
    cycles,                \* history: loop() iterations started
    switchedBy,            \* history: what checkModeSwitch() did in this cycle
    dwell,                 \* history: time since the last transition when it decided
    litBefore,             \* history: a pixel was lit when checkModeSwitch() was called
    lastSpike,             \* history: detectAudioSpike() of the previous cycle
    litAtSilence,          \* history: a pixel was lit when the silence began
    silent,                \* environment: the microphone has gone silent for good
    silentCycles,          \* history: loop() iterations started since silence began
    pace                   \* environment: cycle duration during the silent phase

vars == <<pc, millis, vReal, currentMode, lastSwitch, lastSpikeSwitch,
          globalAudioLevel, globalAudioPeak, globalLastAudioLevel,
          trailBandPeaks, trailLastScroll,
          lavaBlobs, lavaBandPeaks, lavaDominantBand,
          lavaAudioLevel, lavaAudioPeak, lavaLastAudioLevel,
          spectrumBinPeaks, strip, cycles, switchedBy, dwell,
          litBefore, lastSpike, litAtSilence, silent, silentCycles, pace>>

controllerVars == <<currentMode, lastSwitch, lastSpikeSwitch>>
globalAudioVars == <<globalAudioLevel, globalAudioPeak, globalLastAudioLevel>>
trailVars == <<trailBandPeaks, trailLastScroll>>
lavaVars == <<lavaBlobs, lavaBandPeaks, lavaDominantBand,
              lavaAudioLevel, lavaAudioPeak, lavaLastAudioLevel>>
silenceVars == <<silent, silentCycles, pace, litAtSilence>>
switchHistory == <<switchedBy, dwell, litBefore>>

Bins == 0 .. NUM_BINS - 1
Leds == 0 .. NUM_LEDS - 1
Modes == {MODE_TRAIL, MODE_LAVA, MODE_SPECTRUM}

(***************************************************************************)
(* Inputs: the spectra the FFT delivers and the time a cycle takes.        *)
(***************************************************************************)
\* no sound at all: every bin is zero
ZeroSpectrum == [i \in Bins |-> 0]

\* a loud broadband sound
LoudSpectrum == [i \in Bins |-> IF i = 0 THEN Fx(DcMagnitude) ELSE Fx(LoudMagnitude)]

\* a loud bass note: only the two lowest bins above DC carry energy
BassSpectrum ==
    [i \in Bins |-> IF i = 0 THEN Fx(DcMagnitude)
                    ELSE IF i <= 2 THEN Fx(LoudMagnitude) ELSE 0]

Spectra == {ZeroSpectrum, LoudSpectrum, BassSpectrum}

\* an ordinary cycle, or a pause as long as the dwell time
DtSet == {ShortCycleMs, MIN_MODE_TIME_MS}

(***************************************************************************)
(* The LED strip (Adafruit_NeoPixel: clear, setPixelColor, getPixelColor). *)
(***************************************************************************)
stripClear == [i \in Leds |-> 0]

\* setPixelColor ignores an index outside the strip
setPixelColor(s, n, c) == IF n \in Leds THEN [s EXCEPT ![n] = c] ELSE s

\* getPixelColor returns 0 for an index outside the strip
getPixelColor(s, n) == IF n \in Leds THEN s[n] ELSE 0

(***************************************************************************)
(* Spectral front end: updateGlobalAudioLevel(), detectAudioSpike().       *)
(***************************************************************************)
\* the mean of bins 1 .. NUM_BINS-1
AudioMean(v) == SumBins(v, 1, NUM_BINS) \div (NUM_BINS - 1)

\* instant attack, release level * 0.7 + audio * 0.3
GlobalFollowLevel(level, audio) ==
    IF audio > level THEN audio ELSE (level * 7 + audio * 3) \div 10

\* mutant of GlobalFollowPeak: the peak follows the level down at once
GlobalFollowPeak_NoHold(peak, level) == level

\* new maximum, else peak * 0.99 + 50 * 0.01
GlobalFollowPeak(peak, level) ==
    IF level > peak THEN level ELSE (peak * 99 + Fx(AUDIO_FLOOR) * 1) \div 100

\* constrain((level - 50) / (peak - 50), 0, 1); called with peak > 50 only
SpikeNormalize(level, peak) ==
    Constrain(((level - Fx(AUDIO_FLOOR)) * FP) \div (peak - Fx(AUDIO_FLOOR)), 0, FP)

\* mutant of SpikeCondition: the threshold alone, without the rise over last
SpikeCondition_LevelOnly(cur, last) == cur > Pct(SPIKE_THRESHOLD_PCT)

SpikeCondition(cur, last) ==
    cur > Pct(SPIKE_THRESHOLD_PCT) /\ cur > last + Pct(SPIKE_DELTA_PCT)

detectAudioSpike ==
    IF globalAudioPeak <= Fx(AUDIO_FLOOR) THEN FALSE
    ELSE SpikeCondition(SpikeNormalize(globalAudioLevel, globalAudioPeak),
                        SpikeNormalize(globalLastAudioLevel, globalAudioPeak))

(***************************************************************************)
(* Trail engine: trailSetup(), trailUpdate().                              *)
(***************************************************************************)
TRAIL_BAND_START == <<1, 2, 3, 4, 6, 9, 12, 16>>
TRAIL_BAND_NOISE == <<200, 80, 80, 80, 80, 80, 80, 80>>
TRAIL_COLORS ==
    << Color(0, 68, 255),  Color(34, 0, 255),  Color(102, 0, 255), Color(153, 0, 255),
       Color(204, 0, 255), Color(255, 0, 204), Color(255, 0, 136), Color(255, 0, 68) >>

TrailBandIds == 0 .. TRAIL_NUM_BANDS - 1

\* the static noise floor of band b, as a fixed-point number
TrailNoise(b) == Fx(TRAIL_BAND_NOISE[b + 1])

trailLed(i) == IF TRAIL_REVERSE THEN NUM_LEDS - 1 - i ELSE i

\* (uint8_t)(channel * intensity) on each channel
trailDimColor(color, intensity) ==
    Color(ScaleChannel(Red(color), intensity),
          ScaleChannel(Green(color), intensity),
          ScaleChannel(Blue(color), intensity))

\* (uint8_t)(channel * factor) on each channel; factor in per cent
trailFadeColor(color, factorPct) ==
    Color(ScaleChannel(Red(color), Pct(factorPct)),
          ScaleChannel(Green(color), Pct(factorPct)),
          ScaleChannel(Blue(color), Pct(factorPct)))

\* trailSetup(): every band peak starts at the band's noise floor
trailSetupPeaks == [b \in TrailBandIds |-> TrailNoise(b)]

\* the first bin after band b
TrailBandEndBin(b) ==
    IF b < TRAIL_NUM_BANDS - 1 THEN TRAIL_BAND_START[b + 2] ELSE TRAIL_BAND_END

\* trailBands[b]: the mean magnitude over the band's bins
TrailBand(v, b) ==
    LET from == TRAIL_BAND_START[b + 1]
        to == TrailBandEndBin(b)
        count == IF to > from THEN to - from ELSE 0
    IN  IF count > 0 THEN SumBins(v, from, to) \div count ELSE 0

TrailBandActive(band, peak, noise) ==
    band > noise /\ band * 100 > peak * TRAIL_THRESHOLD_PCT

\* mutant of TrailIntensity: the quotient without its constrain
TrailIntensity_Unclamped(band, peak, noise) ==
    ((band - noise) * FP) \div (peak - noise + Fx(1))

\* (band - noise) / (peak - noise + 1), constrained to [0.2, 1.0]
TrailIntensity(band, peak, noise) ==
    Constrain(((band - noise) * FP) \div (peak - noise + Fx(1)), Pct(20), FP)

\* the color of the realtime pixel of band b
TrailRealtimeColor(band, peak, b) ==
    IF TrailBandActive(band, peak, TrailNoise(b))
    THEN IF TRAIL_USE_INTENSITY
         THEN trailDimColor(TRAIL_COLORS[b + 1], TrailIntensity(band, peak, TrailNoise(b)))
         ELSE TRAIL_COLORS[b + 1]
    ELSE 0

\* the loop over b < TRAIL_REALTIME_LEDS && b < TRAIL_NUM_BANDS: band b writes
\* pixel trailLed(b), so pixel p is written by band trailLed(p)
TrailRealtime(s, v, peaks) ==
    [p \in Leds |->
        IF trailLed(p) < TRAIL_REALTIME_LEDS /\ trailLed(p) < TRAIL_NUM_BANDS
        THEN TrailRealtimeColor(TrailBand(v, trailLed(p)), peaks[trailLed(p)],
                                trailLed(p))
        ELSE s[p]]

\* mutant of TrailScrollPixelWith: the fade applied on the hop out of the realtime
\* zone and on no other
TrailScrollPixelWith_FadeFirstHop(s, i, fadePct) ==
    IF i >= TRAIL_REALTIME_LEDS + TRAIL_REALTIME_LEDS
    THEN getPixelColor(s, trailLed(i - TRAIL_REALTIME_LEDS))
    ELSE trailFadeColor(getPixelColor(s, trailLed(i - TRAIL_REALTIME_LEDS)), fadePct)

\* what the scroll loop's iteration i writes to logical pixel i, reading strip s
\* and fading by fadePct per cent: the color of logical pixel i - K, faded unless
\* it leaves the realtime zone
TrailScrollPixelWith(s, i, fadePct) ==
    IF i >= TRAIL_REALTIME_LEDS + TRAIL_REALTIME_LEDS
    THEN trailFadeColor(getPixelColor(s, trailLed(i - TRAIL_REALTIME_LEDS)), fadePct)
    ELSE getPixelColor(s, trailLed(i - TRAIL_REALTIME_LEDS))

TrailScrollPixel(s, i) == TrailScrollPixelWith(s, i, TRAIL_FADE_PCT)

RECURSIVE TrailScrollLoop_Ascending(_, _, _, _)
\* mutant of TrailScrollLoop: the iterations run from the lowest index upwards
TrailScrollLoop_Ascending(s, lo, hi, fadePct) ==
    IF lo > hi THEN s
    ELSE IF lo = hi
    THEN setPixelColor(s, trailLed(lo), TrailScrollPixelWith(s, lo, fadePct))
    ELSE LET first == TrailScrollLoop_Ascending(s, lo, (lo + hi) \div 2, fadePct)
         IN  IF DOMAIN first = Leds
             THEN TrailScrollLoop_Ascending(first, (lo + hi) \div 2 + 1, hi, fadePct)
             ELSE first

RECURSIVE TrailScrollLoop(_, _, _, _)
\* the strip after the scroll loop's iterations i = hi down to i = lo, run one
\* after the other as the code runs them: the upper half of the range runs
\* first, and the lower half reads the strip that the upper half left
TrailScrollLoop(s, lo, hi, fadePct) ==
    IF lo > hi THEN s
    ELSE IF lo = hi
    THEN setPixelColor(s, trailLed(lo), TrailScrollPixelWith(s, lo, fadePct))
    ELSE LET first == TrailScrollLoop(s, (lo + hi) \div 2 + 1, hi, fadePct)
         IN  IF DOMAIN first = Leds
             THEN TrailScrollLoop(first, lo, (lo + hi) \div 2, fadePct)
             ELSE first

\* the scroll loop, i running down from NUM_LEDS - 1 to TRAIL_REALTIME_LEDS:
\* iteration i reads logical pixel i - K, which only a later iteration writes,
\* so every read sees the strip s as it was before the loop
TrailScroll(s) ==
    [p \in Leds |-> IF trailLed(p) >= TRAIL_REALTIME_LEDS
                    THEN TrailScrollPixel(s, trailLed(p))
                    ELSE s[p]]

TrailScrollDue(now, last) == now - last >= TRAIL_SCROLL_MS

\* mutant of TrailFollowPeak: the decay without its noise * 0.007 term
TrailFollowPeak_ToZero(peak, band, noise) ==
    IF band > peak THEN band ELSE (peak * 993) \div 1000

\* new maximum, else peak * 0.993 + noise * 0.007
TrailFollowPeak(peak, band, noise) ==
    IF band > peak THEN band ELSE (peak * 993 + noise * 7) \div 1000

\* the frame trailUpdate() leaves in the strip
TrailFrame(s, v, peaks, now, last) ==
    LET realtime == TrailRealtime(s, v, peaks)
    IN  IF TrailScrollDue(now, last) THEN TrailScroll(realtime) ELSE realtime

(***************************************************************************)
(* Lava engine: lavaSetup(), lavaAnalyzeAudio(), lavaCheckTrigger(),       *)
(* lavaSpawnBlob(), lavaUpdateBlobs(), lavaRender().                       *)
(***************************************************************************)
LAVA_COLORS ==
    << Color(255, 0, 0), Color(255, 68, 0), Color(255, 170, 0),
       Color(68, 255, 0), Color(0, 136, 255), Color(136, 0, 255) >>

\* bandBins of lavaAnalyzeAudio()
LavaBandBins == <<1, 3, 5, 8, 12, 19, 32>>

LavaBandIds == 0 .. LAVA_NUM_BANDS - 1
BlobIds == 0 .. LAVA_MAX_BLOBS - 1

\* a LavaBlob of the zero-initialised global pool
ZeroBlob ==
    [active |-> FALSE, position |-> 0, size |-> 0, brightness |-> 0,
     drift |-> 0, colorIndex |-> 0]

\* mutant of lavaSetupBlobs: lavaSetup() without the loop that clears the pool
lavaSetupBlobs_Kept(blobs) == blobs

\* lavaSetup(): every slot is marked inactive, its other fields stay
lavaSetupBlobs(blobs) == [i \in BlobIds |-> [blobs[i] EXCEPT !.active = FALSE]]

\* lavaSetup(): lavaBandPeaks[i] = 100
lavaSetupBandPeaks == [b \in LavaBandIds |-> Fx(LAVA_BAND_PEAK_INIT)]

\* lavaBandLevels[b]: the mean magnitude over the band's bins
LavaBandLevel(v, b) ==
    SumBins(v, LavaBandBins[b + 1], LavaBandBins[b + 2])
        \div (LavaBandBins[b + 2] - LavaBandBins[b + 1])

\* new maximum, else peak * 0.995 + 50 * 0.005
LavaFollowBandPeak(peak, level) ==
    IF level > peak THEN level ELSE (peak * 995 + Fx(AUDIO_FLOOR) * 5) \div 1000

\* mutant of LavaNormalize: a peak on the floor taken for a full-scale level
LavaNormalize_FullAtFloor(level, peak) ==
    IF peak > Fx(AUDIO_FLOOR)
    THEN Constrain(((level - Fx(AUDIO_FLOOR)) * FP) \div (peak - Fx(AUDIO_FLOOR)), 0, FP)
    ELSE FP

\* 0 unless peak > 50, else constrain((level - 50) / (peak - 50), 0, 1)
LavaNormalize(level, peak) ==
    IF peak > Fx(AUDIO_FLOOR)
    THEN Constrain(((level - Fx(AUDIO_FLOOR)) * FP) \div (peak - Fx(AUDIO_FLOOR)), 0, FP)
    ELSE 0

\* the band peaks after lavaAnalyzeAudio()
LavaBandPeaksAfter(v, peaks) ==
    [b \in LavaBandIds |-> LavaFollowBandPeak(peaks[b], LavaBandLevel(v, b))]

RECURSIVE LavaDominantFrom(_, _, _, _, _)
\* the band loop's search for the highest normalized level, from band b on
LavaDominantFrom(v, newPeaks, b, maxBandLevel, dominant) ==
    IF b >= LAVA_NUM_BANDS THEN dominant
    ELSE LET normalizedLevel == LavaNormalize(LavaBandLevel(v, b), newPeaks[b])
         IN  IF normalizedLevel > maxBandLevel
             THEN LavaDominantFrom(v, newPeaks, b + 1, normalizedLevel, b)
             ELSE LavaDominantFrom(v, newPeaks, b + 1, maxBandLevel, dominant)

LavaDominant(v, newPeaks) == LavaDominantFrom(v, newPeaks, 0, 0, 0)

\* instant attack, release level * 0.7 + audio * 0.3
LavaFollowLevel(level, audio) ==
    IF audio > level THEN audio ELSE (level * 7 + audio * 3) \div 10

\* new maximum, else peak * 0.99 + 50 * 0.01
LavaFollowPeak(peak, level) ==
    IF level > peak THEN level ELSE (peak * 99 + Fx(AUDIO_FLOOR) * 1) \div 100

\* mutant of LavaTriggered: the threshold alone, without the rise of 0.1
LavaTriggered_NoRise(level, last, peak) ==
    LavaNormalize(level, peak) > Pct(LAVA_TRIGGER_THRESHOLD_PCT)

\* lavaCheckTrigger(): an attack of the normalized loudness
LavaTriggered(level, last, peak) ==
    /\ LavaNormalize(level, peak) > Pct(LAVA_TRIGGER_THRESHOLD_PCT)
    /\ LavaNormalize(level, peak) > LavaNormalize(last, peak) + Pct(LAVA_TRIGGER_DELTA_PCT)

RECURSIVE LavaFreeSlotFrom(_, _)
\* the first inactive slot at or after i, or -1
LavaFreeSlotFrom(blobs, i) ==
    IF i >= LAVA_MAX_BLOBS THEN -1
    ELSE IF ~blobs[i].active THEN i
    ELSE LavaFreeSlotFrom(blobs, i + 1)

RECURSIVE LavaDimmestFrom(_, _, _, _)
\* the eviction loop: the first slot of lowest brightness under 1.0, or -1
LavaDimmestFrom(blobs, i, minBrightness, slot) ==
    IF i >= LAVA_MAX_BLOBS THEN slot
    ELSE IF blobs[i].brightness < minBrightness
    THEN LavaDimmestFrom(blobs, i + 1, blobs[i].brightness, i)
    ELSE LavaDimmestFrom(blobs, i + 1, minBrightness, slot)

\* mutant of LavaSpawnSlot: lavaSpawnBlob() without its eviction loop
LavaSpawnSlot_NoEviction(blobs) == LavaFreeSlotFrom(blobs, 0)

\* the slot lavaSpawnBlob() writes, or -1 when it finds none
LavaSpawnSlot(blobs) ==
    IF LavaFreeSlotFrom(blobs, 0) # -1 THEN LavaFreeSlotFrom(blobs, 0)
    ELSE LavaDimmestFrom(blobs, 0, FP, -1)

\* mutant of LavaNewBlob: the size without its intensity term
LavaNewBlob_FixedSize(intensity, dominant, rnd) ==
    [active |-> TRUE,
     position |-> Fx(rnd.pos),
     size |-> LAVA_SPAWN_SIZE * Pct(70),
     brightness |-> Pct(50) + intensity \div 2,
     drift |-> (IF rnd.dir = 0 THEN -1 ELSE 1)
                 * ((LAVA_DRIFT_SPEED_PCT * (Pct(50) + Pct(rnd.speed))) \div 100),
     colorIndex |-> dominant]

\* the values random() returns to one lavaSpawnBlob(): rnd.pos = random(10, NUM_LEDS-10),
\* rnd.dir = random(0, 2), rnd.speed = random(0, 100)
LavaNewBlob(intensity, dominant, rnd) ==
    [active |-> TRUE,
     position |-> Fx(rnd.pos),
     size |-> LAVA_SPAWN_SIZE * (Pct(70) + intensity \div 2),
     brightness |-> Pct(50) + intensity \div 2,
     drift |-> (IF rnd.dir = 0 THEN -1 ELSE 1)
                 * ((LAVA_DRIFT_SPEED_PCT * (Pct(50) + Pct(rnd.speed))) \div 100),
     colorIndex |-> dominant]

lavaSpawnBlob(blobs, intensity, dominant, rnd) ==
    LET slot == LavaSpawnSlot(blobs)
    IN  IF slot >= 0
        THEN [blobs EXCEPT ![slot] = LavaNewBlob(intensity, dominant, rnd)]
        ELSE blobs

\* mutant of LavaBlobSpent: half the minimum brightness
LavaBlobSpent_Dimmer(brightness, size) ==
    brightness < Pct(LAVA_MIN_BRIGHTNESS_PCT) \div 2 \/ size < Fx(LAVA_MIN_SIZE)

\* mutant of LavaBlobSpent: && in place of ||
LavaBlobSpent_Both(brightness, size) ==
    brightness < Pct(LAVA_MIN_BRIGHTNESS_PCT) /\ size < Fx(LAVA_MIN_SIZE)

\* a blob dies when brightness < 0.02 or size < 1
LavaBlobSpent(brightness, size) ==
    brightness < Pct(LAVA_MIN_BRIGHTNESS_PCT) \/ size < Fx(LAVA_MIN_SIZE)

\* mutant of LavaUpdateBlob: a blob that leaves the strip is deactivated
LavaUpdateBlob_DiesAtEdge(blob) ==
    LET brightness == (blob.brightness * LAVA_FADE_RATE_PCT) \div 100
        size == (blob.size * LAVA_SHRINK_RATE_PCT) \div 100
        position == blob.position + blob.drift
        outside == position < 0 \/ position >= Fx(NUM_LEDS)
    IN  [active |-> ~LavaBlobSpent(brightness, size) /\ ~outside,
         position |-> IF outside THEN Constrain(position, 0, Fx(NUM_LEDS - 1))
                      ELSE position,
         size |-> size,
         brightness |-> brightness,
         drift |-> IF outside THEN -blob.drift ELSE blob.drift,
         colorIndex |-> blob.colorIndex]

\* one iteration of lavaUpdateBlobs() on an active blob
LavaUpdateBlob(blob) ==
    LET brightness == (blob.brightness * LAVA_FADE_RATE_PCT) \div 100
        size == (blob.size * LAVA_SHRINK_RATE_PCT) \div 100
        position == blob.position + blob.drift
        outside == position < 0 \/ position >= Fx(NUM_LEDS)
    IN  [active |-> ~LavaBlobSpent(brightness, size),
         position |-> IF outside THEN Constrain(position, 0, Fx(NUM_LEDS - 1))
                      ELSE position,
         size |-> size,
         brightness |-> brightness,
         drift |-> IF outside THEN -blob.drift ELSE blob.drift,
         colorIndex |-> blob.colorIndex]

lavaUpdateBlobs(blobs) ==
    [i \in BlobIds |-> IF blobs[i].active THEN LavaUpdateBlob(blobs[i]) ELSE blobs[i]]

\* mutant of LavaAddedColor: the sums taken in uint8_t, without min(255, ...)
LavaAddedColor_Wrapping(existing, color, brightness) ==
    Color((Red(existing) + ScaleChannel(Red(color), brightness)) % 256,
          (Green(existing) + ScaleChannel(Green(color), brightness)) % 256,
          (Blue(existing) + ScaleChannel(Blue(color), brightness)) % 256)

\* lavaAddColorToPixel(): the color it stores in the pixel whose color is existing,
\* color * brightness added channel by channel, saturating at 255
LavaAddedColor(existing, color, brightness) ==
    Color(Min(255, Red(existing) + ScaleChannel(Red(color), brightness)),
          Min(255, Green(existing) + ScaleChannel(Green(color), brightness)),
          Min(255, Blue(existing) + ScaleChannel(Blue(color), brightness)))

Abs(x) == IF x > 0 THEN x ELSE -x

\* (1 - distance/size)^2 * brightness, constrained to [0, 1]
LavaFalloff(i, center, size, brightness) ==
    LET linear == FP - (Abs(Fx(i) - center) * FP) \div size
    IN  Constrain((((linear * linear) \div FP) * brightness) \div FP, 0, FP)

\* mutant of LavaStartLed: the first pixel of the loop not held at pixel 0
LavaStartLed_Unclamped(blob) == Trunc(blob.position - blob.size)

LavaStartLed(blob) == Max(0, Trunc(blob.position - blob.size))

\* endLed = min(NUM_LEDS - 1, (int)(center + size))
LavaEndLed(blob) == Min(NUM_LEDS - 1, Trunc(blob.position + blob.size))

\* the pixel loop of blob reaches pixel p
LavaCovers(blob, p) == p >= LavaStartLed(blob) /\ p <= LavaEndLed(blob)

RECURSIVE LavaPixelAfter(_, _, _)
\* the color of pixel p once the blob loop of lavaRender() is through the slots
\* below b, after strip.clear()
LavaPixelAfter(blobs, p, b) ==
    IF b = 0 THEN 0
    ELSE IF blobs[b - 1].active /\ LavaCovers(blobs[b - 1], p)
    THEN LavaAddedColor(
             LavaPixelAfter(blobs, p, b - 1),
             LAVA_COLORS[blobs[b - 1].colorIndex + 1],
             LavaFalloff(p, blobs[b - 1].position, blobs[b - 1].size,
                         blobs[b - 1].brightness))
    ELSE LavaPixelAfter(blobs, p, b - 1)

lavaRender(blobs) == [p \in Leds |-> LavaPixelAfter(blobs, p, LAVA_MAX_BLOBS)]

(***************************************************************************)
(* Spectrum engine: spectrumSetup(), spectrumUpdate().                     *)
(***************************************************************************)
\* spectrumGetNoiseFloor(num / den), as a fixed-point number
spectrumGetNoiseFloor(num, den) ==
    IF num * 100 < 33 * den THEN Fx(SPECTRUM_NOISE_LOW)
    ELSE IF num * 100 < 66 * den THEN Fx(SPECTRUM_NOISE_MID)
    ELSE Fx(SPECTRUM_NOISE_HIGH)

\* the noise floor of bin b: freqRatio = b / (NUM_BINS - 1)
SpectrumBinNoise(b) == spectrumGetNoiseFloor(b, NUM_BINS - 1)

\* spectrumSetup(): every bin peak starts at twice the bin's noise floor
spectrumSetupPeaks == [i \in Bins |-> SpectrumBinNoise(i) * 2]

\* new maximum, else peak * 0.995 + noiseFloor * 0.005
SpectrumFollowPeak(peak, value, noiseFloor) ==
    IF value > peak THEN value ELSE (peak * 995 + noiseFloor * 5) \div 1000

\* the bin peaks after the first loop of spectrumUpdate(); bin 0 is not touched
SpectrumPeaksAfter(v, peaks) ==
    [b \in Bins |-> IF b >= 1 THEN SpectrumFollowPeak(peaks[b], v[b], SpectrumBinNoise(b))
                    ELSE peaks[b]]

\* binFloat = 1.0 + (NUM_BINS - 2) * i / (SPECTRUM_ACTIVE_LEDS - 1)
SpectrumBinFloat(i) == Fx(1) + (Fx(NUM_BINS - 2) * i) \div (SPECTRUM_ACTIVE_LEDS - 1)

\* a[binLow] * (1 - frac) + a[binHigh] * frac
SpectrumInterpolate(a, i) ==
    LET binLow == Trunc(SpectrumBinFloat(i))
        binHigh == Min(binLow + 1, NUM_BINS - 1)
        frac == SpectrumBinFloat(i) - Fx(binLow)
    IN  (a[binLow] * (FP - frac) + a[binHigh] * frac) \div FP

\* (value - floor) / (peak - floor) * sensitivity, constrained to [0, 1]; else 0
SpectrumIntensity(value, peak, noiseFloor) ==
    IF value > noiseFloor /\ peak > noiseFloor
    THEN Constrain(
             ((((value - noiseFloor) * FP) \div (peak - noiseFloor))
                 * SPECTRUM_SENSITIVITY_PCT) \div 100,
             0, FP)
    ELSE 0

\* the intensity of active LED i
SpectrumLedIntensity(v, peaks, i) ==
    SpectrumIntensity(SpectrumInterpolate(v, i), SpectrumInterpolate(peaks, i),
                      spectrumGetNoiseFloor(i, SPECTRUM_ACTIVE_LEDS - 1))

spectrumIntensityToColor(intensity) ==
    Color(ScaleChannel(SPECTRUM_R, Constrain(intensity, 0, FP)),
          ScaleChannel(SPECTRUM_G, Constrain(intensity, 0, FP)),
          ScaleChannel(SPECTRUM_B, Constrain(intensity, 0, FP)))

\* the strip index of active LED i
SpectrumLedIndex(i) ==
    IF SPECTRUM_REVERSE THEN NUM_LEDS - 1 - i * SPECTRUM_RESOLUTION
    ELSE i * SPECTRUM_RESOLUTION

\* mutant of SpectrumVisible: no visibility cutoff
SpectrumVisible_Any(intensity) == intensity > 0

SpectrumVisible(intensity) == intensity >= Pct(SPECTRUM_CUTOFF_PCT)

\* the active LEDs: i = 0 .. SPECTRUM_ACTIVE_LEDS - 1
SpectrumActive == 0 .. SPECTRUM_ACTIVE_LEDS - 1

\* the frame spectrumUpdate() leaves in the strip, peaks being the updated ones:
\* strip.clear(), then every active LED of visible intensity is set
SpectrumFrame(v, peaks) ==
    [p \in Leds |->
        IF \E i \in SpectrumActive :
               SpectrumLedIndex(i) = p /\ SpectrumVisible(SpectrumLedIntensity(v, peaks, i))
        THEN spectrumIntensityToColor(
                 SpectrumLedIntensity(v, peaks,
                     CHOOSE i \in SpectrumActive : SpectrumLedIndex(i) = p))
        ELSE stripClear[p]]

(***************************************************************************)
(* Mode controller: nextMode(), checkModeSwitch().                         *)
(***************************************************************************)
\* mutant of NextModeOf: the cycle taken backwards
NextModeOf_Backward(mode) == (mode + NUM_MODES - 1) % NUM_MODES

\* currentMode = (Mode)((currentMode + 1) % NUM_MODES)
NextModeOf(mode) == (mode + 1) % NUM_MODES

\* mutant of NextModeClear: nextMode() without its strip.clear()
NextModeClear_Kept(s) == s

\* strip.clear() at the head of nextMode()
NextModeClear(s) == stripClear

\* mutant of PeriodicDue: the interval compared with > in place of >=
PeriodicDue_Strict(now, last) == SWITCH_PERIODIC /\ now - last > SWITCH_INTERVAL_MS

PeriodicDue(now, last) == SWITCH_PERIODIC /\ now - last >= SWITCH_INTERVAL_MS

\* mutant of SpikeAllowed: no dwell time at all
SpikeAllowed_Always(now, last) == SWITCH_ON_SPIKE

\* mutant of SpikeAllowed: the dwell time compared with > in place of >=
SpikeAllowed_Strict(now, last) == SWITCH_ON_SPIKE /\ now - last > MIN_MODE_TIME_MS

SpikeAllowed(now, last) == SWITCH_ON_SPIKE /\ now - last >= MIN_MODE_TIME_MS

\* mutant of EnterMode: nextMode() calling all three setup functions, as setup() does
EnterMode_SetupAll(mode) ==
    /\ strip' = stripClear
    /\ trailBandPeaks' = trailSetupPeaks
    /\ lavaBlobs' = lavaSetupBlobs(lavaBlobs)
    /\ lavaBandPeaks' = lavaSetupBandPeaks
    /\ lavaAudioLevel' = 0
    /\ lavaAudioPeak' = Fx(AUDIO_PEAK_INIT)
    /\ spectrumBinPeaks' = spectrumSetupPeaks
    /\ UNCHANGED <<trailLastScroll, lavaDominantBand, lavaLastAudioLevel>>

\* the setup call of nextMode() for the mode it enters
EnterMode(mode) ==
    /\ strip' = IF mode = MODE_TRAIL THEN stripClear ELSE NextModeClear(strip)
    /\ trailBandPeaks' = IF mode = MODE_TRAIL THEN trailSetupPeaks ELSE trailBandPeaks
    /\ lavaBlobs' = IF mode = MODE_LAVA THEN lavaSetupBlobs(lavaBlobs) ELSE lavaBlobs
    /\ lavaBandPeaks' = IF mode = MODE_LAVA THEN lavaSetupBandPeaks ELSE lavaBandPeaks
    /\ lavaAudioLevel' = IF mode = MODE_LAVA THEN 0 ELSE lavaAudioLevel
    /\ lavaAudioPeak' = IF mode = MODE_LAVA THEN Fx(AUDIO_PEAK_INIT) ELSE lavaAudioPeak
    /\ spectrumBinPeaks' =
           IF mode = MODE_SPECTRUM THEN spectrumSetupPeaks ELSE spectrumBinPeaks
    /\ UNCHANGED <<trailLastScroll, lavaDominantBand, lavaLastAudioLevel>>

\* mutant of nextMode: only a periodic transition restarts the periodic timer
nextMode_PeriodicOnly ==
    /\ currentMode' = NextModeOf(currentMode)
    /\ lastSwitch' = IF PeriodicDue(millis, lastSwitch) THEN millis ELSE lastSwitch
    /\ EnterMode(NextModeOf(currentMode))

nextMode ==
    /\ currentMode' = NextModeOf(currentMode)
    /\ lastSwitch' = millis
    /\ EnterMode(NextModeOf(currentMode))

noSwitch ==
    UNCHANGED <<currentMode, lastSwitch, strip, trailVars, lavaVars, spectrumBinPeaks>>

(***************************************************************************)
(* setup(): the state when loop() first runs.                              *)
(***************************************************************************)
Init ==
    /\ pc = "sample"
    /\ millis = 0
    /\ vReal = ZeroSpectrum
    /\ currentMode = MODE_TRAIL
    /\ lastSwitch = 0
    /\ lastSpikeSwitch = 0
    /\ globalAudioLevel = 0
    /\ globalAudioPeak = Fx(AUDIO_PEAK_INIT)
    /\ globalLastAudioLevel = 0
    /\ trailBandPeaks = trailSetupPeaks
    /\ trailLastScroll = 0
    /\ lavaBlobs = lavaSetupBlobs([i \in BlobIds |-> ZeroBlob])
    /\ lavaBandPeaks = lavaSetupBandPeaks
    /\ lavaDominantBand = 0
    /\ lavaAudioLevel = 0
    /\ lavaAudioPeak = Fx(AUDIO_PEAK_INIT)
    /\ lavaLastAudioLevel = 0
    /\ spectrumBinPeaks = spectrumSetupPeaks
    /\ strip = stripClear
    /\ cycles = 0
    /\ switchedBy = "none"
    /\ dwell = 0
    /\ litBefore = FALSE
    /\ lastSpike = FALSE
    /\ litAtSilence = FALSE
    /\ silent = FALSE
    /\ silentCycles = 0
    /\ pace = ShortCycleMs

(***************************************************************************)
(* loop(), one action per statement.                                       *)
(***************************************************************************)
\* sampleAudio(); computeFFT(); updateGlobalAudioLevel();
\* the FFT delivers spectrum v, and dt ms have passed since the last cycle
SampleAudio(v, dt) ==
    /\ pc = "sample"
    /\ pc' = "switch"
    /\ millis' = millis + dt
    /\ vReal' = v
    /\ globalLastAudioLevel' = globalAudioLevel
    /\ globalAudioLevel' = GlobalFollowLevel(globalAudioLevel, AudioMean(v))
    /\ globalAudioPeak' = GlobalFollowPeak(globalAudioPeak, globalAudioLevel')
    /\ cycles' = cycles + 1
    /\ silentCycles' = IF silent THEN silentCycles + 1 ELSE silentCycles
    /\ lastSpike' = detectAudioSpike
    /\ UNCHANGED <<controllerVars, trailVars, lavaVars, spectrumBinPeaks, strip,
                   switchHistory, silent, pace, litAtSilence>>

\* mutant of CheckModeSwitch: the spike branch tried before the periodic one
CheckModeSwitch_SpikeFirst ==
    /\ pc = "switch"
    /\ pc' = "update"
    /\ dwell' = millis - lastSwitch
    /\ litBefore' = (\E p \in Leds : strip[p] # 0)
    /\ IF SpikeAllowed(millis, lastSpikeSwitch) /\ detectAudioSpike
       THEN /\ lastSpikeSwitch' = millis
            /\ nextMode
            /\ switchedBy' = "spike"
       ELSE IF PeriodicDue(millis, lastSwitch)
       THEN /\ nextMode
            /\ switchedBy' = "periodic"
            /\ UNCHANGED lastSpikeSwitch
       ELSE /\ noSwitch
            /\ switchedBy' = "none"
            /\ UNCHANGED lastSpikeSwitch
    /\ UNCHANGED <<millis, vReal, globalAudioVars, cycles, lastSpike, silenceVars>>

\* checkModeSwitch();
CheckModeSwitch ==
    /\ pc = "switch"
    /\ pc' = "update"
    /\ dwell' = millis - lastSwitch
    /\ litBefore' = (\E p \in Leds : strip[p] # 0)
    /\ IF PeriodicDue(millis, lastSwitch)
       THEN /\ nextMode
            /\ switchedBy' = "periodic"
            /\ UNCHANGED lastSpikeSwitch
       ELSE IF SpikeAllowed(millis, lastSpikeSwitch) /\ detectAudioSpike
       THEN /\ lastSpikeSwitch' = millis
            /\ nextMode
            /\ switchedBy' = "spike"
       ELSE /\ noSwitch
            /\ switchedBy' = "none"
            /\ UNCHANGED lastSpikeSwitch
    /\ UNCHANGED <<millis, vReal, globalAudioVars, cycles, lastSpike, silenceVars>>

\* case MODE_TRAIL: trailUpdate(); strip.show();
TrailUpdate ==
    /\ pc = "update"
    /\ currentMode = MODE_TRAIL
    /\ pc' = "sample"
    /\ strip' = TrailFrame(strip, vReal, trailBandPeaks, millis, trailLastScroll)
    /\ trailLastScroll' =
           IF TrailScrollDue(millis, trailLastScroll) THEN millis ELSE trailLastScroll
    /\ trailBandPeaks' =
           [b \in TrailBandIds |->
               TrailFollowPeak(trailBandPeaks[b], TrailBand(vReal, b), TrailNoise(b))]
    /\ UNCHANGED <<millis, vReal, controllerVars, globalAudioVars, lavaVars,
                   spectrumBinPeaks, cycles, switchHistory, lastSpike, silenceVars>>

\* case MODE_LAVA: lavaUpdate(); strip.show();
\* rnd holds what random() returns should a blob be spawned
LavaUpdate(rnd) ==
    /\ pc = "update"
    /\ currentMode = MODE_LAVA
    /\ pc' = "sample"
    \* lavaAnalyzeAudio()
    /\ lavaBandPeaks' = LavaBandPeaksAfter(vReal, lavaBandPeaks)
    /\ lavaDominantBand' = LavaDominant(vReal, lavaBandPeaks')
    /\ lavaLastAudioLevel' = lavaAudioLevel
    /\ lavaAudioLevel' = LavaFollowLevel(lavaAudioLevel, AudioMean(vReal))
    /\ lavaAudioPeak' = LavaFollowPeak(lavaAudioPeak, lavaAudioLevel')
    \* lavaCheckTrigger(); lavaUpdateBlobs()
    /\ lavaBlobs' =
           lavaUpdateBlobs(
               IF LavaTriggered(lavaAudioLevel', lavaLastAudioLevel', lavaAudioPeak')
               THEN lavaSpawnBlob(lavaBlobs,
                                  LavaNormalize(lavaAudioLevel', lavaAudioPeak'),
                                  lavaDominantBand', rnd)
               ELSE lavaBlobs)
    \* lavaRender()
    /\ strip' = lavaRender(lavaBlobs')
    /\ UNCHANGED <<millis, vReal, controllerVars, globalAudioVars, trailVars,
                   spectrumBinPeaks, cycles, switchHistory, lastSpike, silenceVars>>

\* case MODE_SPECTRUM: spectrumUpdate(); strip.show();
SpectrumUpdate ==
    /\ pc = "update"
    /\ currentMode = MODE_SPECTRUM
    /\ pc' = "sample"
    /\ spectrumBinPeaks' = SpectrumPeaksAfter(vReal, spectrumBinPeaks)
    /\ strip' = SpectrumFrame(vReal, spectrumBinPeaks')
    /\ UNCHANGED <<millis, vReal, controllerVars, globalAudioVars, trailVars, lavaVars,
                   cycles, switchHistory, lastSpike, silenceVars>>

(***************************************************************************)
(* Specification: any of the test spectra and cycle durations, every cycle.*)
(***************************************************************************)
\* what random() can return to lavaSpawnBlob(): both ends of each range, and the middle
SpawnDraws ==
    { [pos |-> LAVA_SPAWN_MARGIN, dir |-> 0, speed |-> 99],
      [pos |-> NUM_LEDS \div 2, dir |-> 1, speed |-> 0],
      [pos |-> NUM_LEDS - LAVA_SPAWN_MARGIN - 1, dir |-> 1, speed |-> 99] }

Sample ==
    /\ cycles < MaxCycles
    /\ \E v \in Spectra, dt \in DtSet : SampleAudio(v, dt)

Lava == \E rnd \in SpawnDraws : LavaUpdate(rnd)

Next == Sample \/ CheckModeSwitch \/ TrailUpdate \/ Lava \/ SpectrumUpdate

Spec == Init /\ [][Next]_vars


(***************************************************************************)
(* TourSpec: long cycles only, loud or silent, to take the mode controller *)
(* through more than one round of the three modes.                         *)
(***************************************************************************)
TourSample ==
    /\ cycles < MaxTourCycles
    /\ \E v \in {ZeroSpectrum, LoudSpectrum} : SampleAudio(v, MIN_MODE_TIME_MS)

TourNext == TourSample \/ CheckModeSwitch \/ TrailUpdate \/ Lava \/ SpectrumUpdate

TourSpec == Init /\ [][TourNext]_vars

(***************************************************************************)
(* SilenceSpec: a few cycles of sound, then an all-zero spectrum in every  *)
(* cycle.  loop() is called again and again, hence the fairness.           *)
(***************************************************************************)
\* the cycles before the silence: a loud cycle too early for a spike transition,
\* and a silent and a loud cycle a minimum dwell after the one before
NoisyInputs ==
    { [v |-> LoudSpectrum, dt |-> ShortCycleMs],
      [v |-> ZeroSpectrum, dt |-> MIN_MODE_TIME_MS],
      [v |-> LoudSpectrum, dt |-> MIN_MODE_TIME_MS] }

NoisySample ==
    /\ ~silent
    /\ cycles < MaxNoisyCycles
    /\ \E in \in NoisyInputs : SampleAudio(in.v, in.dt)

\* the sound stops between two cycles; from here on every cycle takes pace ms
Silence ==
    /\ pc = "sample"
    /\ ~silent
    /\ silent' = TRUE
    /\ \E d \in DtSet : pace' = d
    /\ litAtSilence' = (\E p \in Leds : strip[p] # 0)
    /\ UNCHANGED <<pc, millis, vReal, controllerVars, globalAudioVars, trailVars,
                   lavaVars, spectrumBinPeaks, strip, cycles, switchHistory,
                   lastSpike, silentCycles>>

SilentSample ==
    /\ silent
    /\ silentCycles < MaxSilentCycles
    /\ SampleAudio(ZeroSpectrum, pace)

SilenceNext ==
    \/ NoisySample \/ Silence \/ SilentSample
    \/ CheckModeSwitch \/ TrailUpdate \/ Lava \/ SpectrumUpdate

SilenceSpec == Init /\ [][SilenceNext]_vars /\ WF_vars(SilenceNext)

(***************************************************************************)
(* The divisions of the sketch.  Each is a record: executes tells whether   *)
(* the code reaches the division in a cycle that computes on the current    *)
(* state, divisor is the value it divides by.                               *)
(***************************************************************************)
Division(executes, divisor) == [executes |-> executes, divisor |-> divisor]

\* updateGlobalAudioLevel(): audio /= (NUM_BINS - 1); detectAudioSpike(): both
\* quotients by globalAudioPeak - 50, after the return on globalAudioPeak <= 50
GlobalDivisions ==
    { Division(TRUE, NUM_BINS - 1),
      Division(~(globalAudioPeak <= Fx(AUDIO_FLOOR)), globalAudioPeak - Fx(AUDIO_FLOOR)) }

\* trailUpdate(): trailBands[b] /= count under count > 0, and the intensity
\* quotient by trailBandPeaks[b] - noise + 1 of an active band
TrailDivisions ==
    { Division(TrailBandEndBin(b) - TRAIL_BAND_START[b + 1] > 0,
               TrailBandEndBin(b) - TRAIL_BAND_START[b + 1]) : b \in TrailBandIds }
    \cup
    { Division(/\ b < TRAIL_REALTIME_LEDS
               /\ TRAIL_USE_INTENSITY
               /\ TrailBandActive(TrailBand(vReal, b), trailBandPeaks[b], TrailNoise(b)),
               trailBandPeaks[b] - TrailNoise(b) + Fx(1)) : b \in TrailBandIds }

\* mutant of LavaDivisions: the pixel loop run for every slot of the pool
LavaDivisions_EverySlot ==
    { Division(LavaStartLed(lavaBlobs[i]) <= LavaEndLed(lavaBlobs[i]), lavaBlobs[i].size)
          : i \in BlobIds }

\* lavaAnalyzeAudio(): the band means, the band quotients under lavaBandPeaks[b] > 50
\* and the overall mean; lavaCheckTrigger(): both quotients under lavaAudioPeak > 50;
\* lavaRender(): distance / size for every pixel of an active blob
LavaDivisions ==
    { Division(TRUE, LavaBandBins[b + 2] - LavaBandBins[b + 1]) : b \in LavaBandIds }
    \cup
    { Division(lavaBandPeaks[b] > Fx(AUDIO_FLOOR), lavaBandPeaks[b] - Fx(AUDIO_FLOOR))
          : b \in LavaBandIds }
    \cup
    { Division(TRUE, NUM_BINS - 1),
      Division(lavaAudioPeak > Fx(AUDIO_FLOOR), lavaAudioPeak - Fx(AUDIO_FLOOR)) }
    \cup
    { Division(/\ lavaBlobs[i].active
               /\ LavaStartLed(lavaBlobs[i]) <= LavaEndLed(lavaBlobs[i]),
               lavaBlobs[i].size) : i \in BlobIds }

\* spectrumUpdate(): b / (NUM_BINS - 1), i / (SPECTRUM_ACTIVE_LEDS - 1), and the
\* intensity quotient under value > noiseFloor && peak > noiseFloor
SpectrumDivisions ==
    { Division(TRUE, NUM_BINS - 1), Division(TRUE, SPECTRUM_ACTIVE_LEDS - 1) }
    \cup
    { Division(/\ SpectrumInterpolate(vReal, i)
                      > spectrumGetNoiseFloor(i, SPECTRUM_ACTIVE_LEDS - 1)
               /\ SpectrumInterpolate(spectrumBinPeaks, i)
                      > spectrumGetNoiseFloor(i, SPECTRUM_ACTIVE_LEDS - 1),
               SpectrumInterpolate(spectrumBinPeaks, i)
                   - spectrumGetNoiseFloor(i, SPECTRUM_ACTIVE_LEDS - 1))
          : i \in SpectrumActive }

(***************************************************************************)
(* The indices the engines use on the current state.                        *)
(***************************************************************************)
\* the pixel indices passed to setPixelColor() and getPixelColor(): Trail's
\* realtime zone and scroll loop, the pixel loops of Lava's active blobs,
\* Spectrum's ledIndex
PixelIndices ==
    { trailLed(b) : b \in { b \in TrailBandIds : b < TRAIL_REALTIME_LEDS } }
    \cup { trailLed(i) : i \in TRAIL_REALTIME_LEDS .. NUM_LEDS - 1 }
    \cup { trailLed(i - TRAIL_REALTIME_LEDS) : i \in TRAIL_REALTIME_LEDS .. NUM_LEDS - 1 }
    \cup UNION { LavaStartLed(lavaBlobs[i]) .. LavaEndLed(lavaBlobs[i])
                     : i \in { i \in BlobIds : lavaBlobs[i].active } }
    \cup { SpectrumLedIndex(i) : i \in SpectrumActive }

\* the indices at which vReal[] is read: the mean of updateGlobalAudioLevel() and
\* of lavaAnalyzeAudio(), the bands of Trail and of Lava, the peak loop and
\* binLow, binHigh of Spectrum
BinIndices ==
    (1 .. NUM_BINS - 1)
    \cup UNION { TRAIL_BAND_START[b + 1] .. TrailBandEndBin(b) - 1 : b \in TrailBandIds }
    \cup UNION { LavaBandBins[b + 1] .. LavaBandBins[b + 2] - 1 : b \in LavaBandIds }
    \cup { Trunc(SpectrumBinFloat(i)) : i \in SpectrumActive }
    \cup { Min(Trunc(SpectrumBinFloat(i)) + 1, NUM_BINS - 1) : i \in SpectrumActive }

\* the indices at which LAVA_COLORS[] is read: the colorIndex of the active
\* blobs, and lavaDominantBand, which the next spawn copies
ColorIndices ==
    { lavaBlobs[i].colorIndex : i \in { i \in BlobIds : lavaBlobs[i].active } }
    \cup { lavaDominantBand }

(***************************************************************************)
(* PoolSpec: a pulsed sound.  The first cycle is loud and comes after the  *)
(* dwell time, so its spike takes the controller from Trail into Lava;     *)
(* from then on short cycles alternate between silence and the loud sound, *)
(* and every loud cycle is an attack that triggers a spawn.                *)
(***************************************************************************)
\* what random() returns to lavaSpawnBlob(): the two ends of each range
PoolDraws ==
    { [pos |-> LAVA_SPAWN_MARGIN, dir |-> 0, speed |-> 99],
      [pos |-> NUM_LEDS - LAVA_SPAWN_MARGIN - 1, dir |-> 1, speed |-> 0] }

PulseSample ==
    /\ cycles < MaxPulseCycles
    /\ SampleAudio(IF cycles % 2 = 0 THEN LoudSpectrum ELSE ZeroSpectrum,
                   IF cycles = 0 THEN MIN_MODE_TIME_MS ELSE ShortCycleMs)

PoolLava == \E rnd \in PoolDraws : LavaUpdate(rnd)

PoolNext == PulseSample \/ CheckModeSwitch \/ PoolLava

PoolSpec == Init /\ [][PoolNext]_vars

(***************************************************************************)
(* ScrollSpec: the scroll loop of trailUpdate() on its own, with TRAIL_FADE *)
(* set to 1.0, applied to a strip whose realtime zone has just been drawn. *)
(***************************************************************************)
NO_FADE_PCT == 100                 \* TRAIL_FADE = 1.0

\* the scroll steps that take a pixel from the head of the strip off its tail
ScrollSteps == NUM_LEDS \div TRAIL_REALTIME_LEDS

\* a loud note in Trail band b alone
BandSpectrum(b) ==
    [i \in Bins |-> IF i >= TRAIL_BAND_START[b + 1] /\ i < TrailBandEndBin(b)
                    THEN Fx(LoudMagnitude) ELSE 0]

ScrollSpectra == Spectra \cup {BandSpectrum(b) : b \in TrailBandIds}

\* band peaks as trailSetup() leaves them, or as a sound a quarter louder left them
ScrollPeaks == {trailSetupPeaks,
                [b \in TrailBandIds |-> Fx(LoudMagnitude) + Fx(LoudMagnitude) \div 4]}

\* the strip after trailSetup(), or with the fading history of a loud sound
ScrollHistories ==
    {stripClear,
     TrailScroll(TrailScroll(TrailScroll(
         TrailRealtime(stripClear, LoudSpectrum, trailSetupPeaks))))}

ScrollInit ==
    /\ pc = "update"
    /\ millis = TRAIL_SCROLL_MS
    /\ vReal \in ScrollSpectra
    /\ currentMode = MODE_TRAIL
    /\ lastSwitch = 0
    /\ lastSpikeSwitch = 0
    /\ globalAudioLevel = AudioMean(vReal)
    /\ globalAudioPeak = Max(Fx(AUDIO_PEAK_INIT), globalAudioLevel)
    /\ globalLastAudioLevel = 0
    /\ trailBandPeaks \in ScrollPeaks
    /\ trailLastScroll = 0
    /\ lavaBlobs = lavaSetupBlobs([i \in BlobIds |-> ZeroBlob])
    /\ lavaBandPeaks = lavaSetupBandPeaks
    /\ lavaDominantBand = 0
    /\ lavaAudioLevel = 0
    /\ lavaAudioPeak = Fx(AUDIO_PEAK_INIT)
    /\ lavaLastAudioLevel = 0
    /\ spectrumBinPeaks = spectrumSetupPeaks
    /\ \E history \in ScrollHistories :
           strip = TrailRealtime(history, vReal, trailBandPeaks)
    /\ cycles = 0
    /\ switchedBy = "none"
    /\ dwell = millis
    /\ litBefore = FALSE
    /\ lastSpike = FALSE
    /\ litAtSilence = FALSE
    /\ silent = FALSE
    /\ silentCycles = 0
    /\ pace = ShortCycleMs

\* one run of the scroll loop; cycles counts the runs
ScrollStep ==
    /\ cycles < ScrollSteps
    /\ strip' = TrailScrollLoop(strip, TRAIL_REALTIME_LEDS, NUM_LEDS - 1, NO_FADE_PCT)
    /\ cycles' = cycles + 1
    /\ UNCHANGED <<pc, millis, vReal, controllerVars, globalAudioVars, trailVars,
                   lavaVars, spectrumBinPeaks, switchHistory, lastSpike, silenceVars>>

ScrollNext == ScrollStep

ScrollSpec == ScrollInit /\ [][ScrollNext]_vars

(***************************************************************************)
(* DegenerateSpec: the sketch after a long silence.  Cycles of             *)
(* ShortCycleMs with an all-zero spectrum take the controller through its  *)
(* periodic transitions and let the adaptive peaks of the running engine   *)
(* decay onto their floors; two cycles before the end of the Lava phase,   *)
(* or of the Spectrum phase, sound of any kind may return.                 *)
(***************************************************************************)
\* the time between two periodic transitions when every cycle takes ShortCycleMs
SettledSwitchStride ==
    ((SWITCH_INTERVAL_MS + ShortCycleMs - 1) \div ShortCycleMs) * ShortCycleMs

\* the time between two Trail scrolls when every cycle takes ShortCycleMs
SettledScrollStride ==
    ((TRAIL_SCROLL_MS + ShortCycleMs - 1) \div ShortCycleMs) * ShortCycleMs

\* the silent phases: 1 is Lava (after one transition), 2 is Spectrum (after two)
SettledPhases == 1 .. 2

\* the cycles run two cycles before the end of phase k
SettledCycles(k) == (k + 1) * (SettledSwitchStride \div ShortCycleMs) - 2

\* every bin at the loudness floor of 50
QuietSpectrum == [i \in Bins |-> Fx(AUDIO_FLOOR)]

\* every bin at its own Spectrum noise floor
FloorSpectrum == [i \in Bins |-> SpectrumBinNoise(i)]

\* a bass note narrowing: the lowest bin above DC still loud, the next one left
\* just over its noise floor
FaintBassSpectrum ==
    [i \in Bins |-> IF i = 1 THEN Fx(LoudMagnitude)
                    ELSE IF i = 2 THEN Fx(SPECTRUM_NOISE_MID) ELSE 0]

DegenerateSpectra ==
    {ZeroSpectrum, QuietSpectrum, FloorSpectrum, LoudSpectrum, BassSpectrum,
     FaintBassSpectrum}

\* the state SettledCycles(k) silent cycles after setup()
SettledState(k) ==
    /\ pc = "sample"
    /\ millis = SettledCycles(k) * ShortCycleMs
    /\ vReal = ZeroSpectrum
    /\ currentMode = IF k = 1 THEN MODE_LAVA ELSE MODE_SPECTRUM
    /\ lastSwitch = k * SettledSwitchStride
    /\ lastSpikeSwitch = 0
    /\ globalAudioLevel = 0
    /\ globalAudioPeak = Fx(AUDIO_FLOOR)
    /\ globalLastAudioLevel = 0
    /\ trailBandPeaks = trailSetupPeaks
    /\ trailLastScroll =
           ((SettledSwitchStride - ShortCycleMs) \div SettledScrollStride)
               * SettledScrollStride
    /\ lavaBlobs = [i \in BlobIds |-> ZeroBlob]
    /\ lavaBandPeaks = [b \in LavaBandIds |-> Fx(AUDIO_FLOOR)]
    /\ lavaDominantBand = 0
    /\ lavaAudioLevel = 0
    /\ lavaAudioPeak = Fx(AUDIO_FLOOR)
    /\ lavaLastAudioLevel = 0
    /\ spectrumBinPeaks =
           [b \in Bins |-> IF k = 2 /\ b >= 1 THEN SpectrumBinNoise(b)
                                               ELSE spectrumSetupPeaks[b]]
    /\ strip = stripClear
    /\ cycles = SettledCycles(k)
    /\ switchedBy = "none"
    /\ dwell = millis - lastSwitch
    /\ litBefore = FALSE
    /\ lastSpike = FALSE
    /\ litAtSilence = FALSE
    /\ silent = FALSE
    /\ silentCycles = 0
    /\ pace = ShortCycleMs

DegenerateInit == \E k \in SettledPhases : SettledState(k)

DegenerateSample ==
    /\ \E k \in SettledPhases :
           /\ cycles >= SettledCycles(k)
           /\ cycles < SettledCycles(k) + MaxDegenerateCycles
    /\ \E v \in DegenerateSpectra, dt \in DtSet : SampleAudio(v, dt)

DegenerateNext ==
    DegenerateSample \/ CheckModeSwitch \/ TrailUpdate \/ Lava \/ SpectrumUpdate

DegenerateSpec == DegenerateInit /\ [][DegenerateNext]_vars

\* the silence that leads to DegenerateInit
ZeroSample ==
    /\ cycles < SettledCycles(2)
    /\ SampleAudio(ZeroSpectrum, ShortCycleMs)

ZeroChainNext == ZeroSample \/ CheckModeSwitch \/ TrailUpdate \/ Lava \/ SpectrumUpdate

ZeroChain == Init /\ [][ZeroChainNext]_vars

\* under ZeroChain: the silence passes through both states of DegenerateInit
DegenerateInitReached ==
    \A k \in SettledPhases :
        (cycles = SettledCycles(k) /\ pc = "sample") => SettledState(k)

(***************************************************************************)
(* Claims.                                                                 *)
(***************************************************************************)
\* the cyclic successor of a mode: Trail -> Lava -> Spectrum -> Trail
Successor(mode) ==
    IF mode = MODE_TRAIL THEN MODE_LAVA
    ELSE IF mode = MODE_LAVA THEN MODE_SPECTRUM
    ELSE MODE_TRAIL

AllOff == \A p \in Leds : strip[p] = 0

\* C1: a spike-triggered transition happens only when the current mode has been
\* active for at least MIN_MODE_TIME_MS, whatever kind the last transition was.
C1_SpikeSwitchRespectsDwell ==
    switchedBy = "spike" => dwell >= MIN_MODE_TIME_MS

\* C2: exactly one of the three modes is active, and every change of mode goes to
\* the cyclic successor Trail -> Lava -> Spectrum -> Trail.
C2_CyclicOrder ==
    [][ /\ currentMode' \in Modes
        /\ currentMode' # currentMode => currentMode' = Successor(currentMode) ]_vars

\* C2 witness: the controller has gone round once and switched back to Trail.
C2_Witness == pc = "update" /\ switchedBy # "none" /\ currentMode = MODE_TRAIL

\* C3: whenever checkModeSwitch() runs with now - lastSwitch >= SWITCH_INTERVAL_MS,
\* the mode advances to its successor in that call, whatever the audio is.
C3_PeriodicForces ==
    [][ (pc = "switch" /\ millis - lastSwitch >= SWITCH_INTERVAL_MS)
          => (pc' = "update" /\ currentMode' = Successor(currentMode)) ]_vars

\* C3 witness: a periodic transition taken in a cycle of complete silence.
C3_Witness ==
    /\ pc = "update" /\ switchedBy = "periodic"
    /\ vReal = ZeroSpectrum /\ ~detectAudioSpike

\* C4: whenever checkModeSwitch() runs while detectAudioSpike() holds and at least
\* MIN_MODE_TIME_MS has passed since the last transition (or since startup), the
\* mode advances to its successor in that call.
C4_SpikeForces ==
    [][ (pc = "switch" /\ detectAudioSpike /\ millis - lastSwitch >= MIN_MODE_TIME_MS)
          => (pc' = "update" /\ currentMode' = Successor(currentMode)) ]_vars

\* C4 witness: from Trail, a spike just after the dwell time switches to Lava at once.
C4_Witness ==
    /\ pc = "update" /\ switchedBy = "spike" /\ currentMode = MODE_LAVA
    /\ cycles = 2 /\ dwell = MIN_MODE_TIME_MS + ShortCycleMs

\* a transition was made by the checkModeSwitch() that has just returned
JustSwitched == pc = "update" /\ switchedBy # "none"

NoActiveBlob == \A i \in BlobIds : ~lavaBlobs[i].active

C6_ClearedOnTransition ==
    /\ JustSwitched => AllOff
    /\ (pc = "sample" /\ switchedBy # "none" /\ currentMode = MODE_TRAIL) =>
           \A i \in 2 * TRAIL_REALTIME_LEDS .. NUM_LEDS - 1 : strip[trailLed(i)] = 0

\* C6 witness: a transition taken while pixels were lit.
C6_Witness == JustSwitched /\ litBefore /\ AllOff

\* C7: in a cycle in which the smoothed level has not risen above its previous value
\* the spike detector is false, however elevated the level is.
C7_NoSpikeWithoutRise ==
    globalAudioLevel <= globalLastAudioLevel => ~detectAudioSpike

\* C7 witness: the cycle after a spike, the level still above the spike threshold.
C7_Witness ==
    /\ pc = "switch" /\ lastSpike
    /\ globalAudioLevel <= globalLastAudioLevel
    /\ SpikeNormalize(globalAudioLevel, globalAudioPeak) > Pct(SPIKE_THRESHOLD_PCT)

\* C8: every adaptive peak is at least its band's static noise floor: the 8 Trail
\* bands, the 6 Lava bands (floor 50) and the Spectrum bins 1 .. 31.
C8_PeaksAboveFloors ==
    /\ \A b \in TrailBandIds : trailBandPeaks[b] >= TrailNoise(b)
    /\ \A b \in LavaBandIds : lavaBandPeaks[b] >= Fx(AUDIO_FLOOR)
    /\ \A b \in 1 .. NUM_BINS - 1 : spectrumBinPeaks[b] >= SpectrumBinNoise(b)

\* C8 witness: peaks of all three engines have moved away from their reset values,
\* and a Trail peak has risen and then decayed part of the way back to its floor.
C8_Witness ==
    /\ \E b \in TrailBandIds :
           /\ trailBandPeaks[b] > TrailNoise(b)
           /\ trailBandPeaks[b] < TrailBand(LoudSpectrum, b)
    /\ \E b \in LavaBandIds : lavaBandPeaks[b] # Fx(LAVA_BAND_PEAK_INIT)
    /\ \E b \in 1 .. NUM_BINS - 1 : spectrumBinPeaks[b] # 2 * SpectrumBinNoise(b)

\* C9: both loudness trackers keep their peak at or above the floor of 50.
C9_LoudnessPeaksAboveFloor ==
    /\ globalAudioPeak >= Fx(AUDIO_FLOOR)
    /\ lavaAudioPeak >= Fx(AUDIO_FLOOR)

\* C9 witness: both peaks have decayed below their initial 100.
C9_Witness ==
    /\ globalAudioPeak < Fx(AUDIO_PEAK_INIT)
    /\ lavaAudioPeak < Fx(AUDIO_PEAK_INIT)

\* C10: once the spectrum is all-zero in every cycle, the frame buffer is
\* eventually fully off and stays off, across the mode transitions on the way.
C10_SilenceTurnsOff == <>[](silent => AllOff)

\* C10 witness: the silence began with pixels lit, a periodic transition was made
\* during it, and the strip is off.
C10_Witness ==
    /\ silent /\ litAtSilence /\ AllOff
    /\ pc = "update" /\ switchedBy = "periodic"

\* C11: every pixel intensity an engine computes lies in [0, 1] before it is made a
\* color channel: the Trail intensity of every active realtime band, the Lava
\* falloff of every pixel an active blob covers, and the Spectrum intensity of
\* every active LED, for the spectrum and the engine state of the cycle.
C11_IntensitiesInRange ==
    /\ \A b \in TrailBandIds :
           (b < TRAIL_REALTIME_LEDS
              /\ TrailBandActive(TrailBand(vReal, b), trailBandPeaks[b], TrailNoise(b)))
           => TrailIntensity(TrailBand(vReal, b), trailBandPeaks[b], TrailNoise(b))
                  \in 0 .. FP
    /\ \A i \in BlobIds : \A p \in Leds :
           (lavaBlobs[i].active /\ LavaCovers(lavaBlobs[i], p))
           => LavaFalloff(p, lavaBlobs[i].position, lavaBlobs[i].size,
                          lavaBlobs[i].brightness) \in 0 .. FP
    /\ \A i \in SpectrumActive :
           SpectrumLedIntensity(vReal, spectrumBinPeaks, i) \in 0 .. FP

\* C11 witness: a Trail band whose quotient is above 1.0 before the constrain, a
\* blob lighting a pixel, and a Spectrum LED of positive intensity.
C11_Witness ==
    /\ \E b \in TrailBandIds :
           /\ TrailBandActive(TrailBand(vReal, b), trailBandPeaks[b], TrailNoise(b))
           /\ (TrailBand(vReal, b) - TrailNoise(b)) * FP
                  > FP * (trailBandPeaks[b] - TrailNoise(b) + Fx(1))
    /\ \E i \in BlobIds : \E p \in Leds :
           /\ lavaBlobs[i].active /\ LavaCovers(lavaBlobs[i], p)
           /\ LavaFalloff(p, lavaBlobs[i].position, lavaBlobs[i].size,
                          lavaBlobs[i].brightness) > 0
    /\ \E i \in SpectrumActive : SpectrumLedIntensity(vReal, spectrumBinPeaks, i) > 0

\* the detector, the Lava normalizations and the Spectrum LEDs give zero on a
\* peak that sits on its floor
DegenerateZero ==
    /\ globalAudioPeak = Fx(AUDIO_FLOOR) => ~detectAudioSpike
    /\ \A b \in LavaBandIds :
           lavaBandPeaks[b] = Fx(AUDIO_FLOOR)
           => LavaNormalize(LavaBandLevel(vReal, b), lavaBandPeaks[b]) = 0
    /\ lavaAudioPeak = Fx(AUDIO_FLOOR)
           => /\ LavaNormalize(lavaAudioLevel, lavaAudioPeak) = 0
              /\ ~LavaTriggered(lavaAudioLevel, lavaLastAudioLevel, lavaAudioPeak)
    /\ \A i \in SpectrumActive :
           SpectrumInterpolate(spectrumBinPeaks, i)
               = spectrumGetNoiseFloor(i, SPECTRUM_ACTIVE_LEDS - 1)
           => SpectrumLedIntensity(vReal, spectrumBinPeaks, i) = 0

\* C12 as stated: a band or tracker whose peak equals its floor gives zero
\* intensity in every engine: the Trail realtime pixel is off, the Lava normalized
\* levels and the spike detector's level are zero, and a Spectrum LED whose peak
\* is on its floor is off.
C12_DegenerateIsZero ==
    /\ DegenerateZero
    /\ \A b \in TrailBandIds :
           trailBandPeaks[b] = TrailNoise(b)
           => TrailRealtimeColor(TrailBand(vReal, b), trailBandPeaks[b], b) = 0

\* C12 amended: with a peak on its floor the spike detector, the Lava normalized
\* band and loudness levels and a Spectrum LED (interpolated peak on the LED's own
\* floor) give zero; a Trail band whose peak is on its floor divides by 1, and its
\* realtime pixel is lit exactly when the band is above the floor, with an
\* intensity in [0.2, 1].
C12_DegenerateIsSafe ==
    /\ DegenerateZero
    /\ \A b \in TrailBandIds :
           trailBandPeaks[b] = TrailNoise(b)
           => /\ (TrailRealtimeColor(TrailBand(vReal, b), trailBandPeaks[b], b) # 0)
                     <=> (TrailBand(vReal, b) > TrailNoise(b))
              /\ TrailIntensity(TrailBand(vReal, b), trailBandPeaks[b], TrailNoise(b))
                     \in Pct(20) .. FP

\* C12 witness: Lava has run on a spectrum that sits exactly on the loudness
\* floor: the global and the Lava peaks are on their floors with the levels equal
\* to them (the quotients would be 0 / 0), and the Trail peaks are on theirs.
C12_Witness ==
    /\ pc = "sample" /\ vReal = QuietSpectrum /\ currentMode = MODE_LAVA
    /\ globalAudioPeak = Fx(AUDIO_FLOOR) /\ globalAudioLevel = Fx(AUDIO_FLOOR)
    /\ lavaAudioPeak = Fx(AUDIO_FLOOR) /\ lavaAudioLevel = Fx(AUDIO_FLOOR)
    /\ \A b \in LavaBandIds :
           lavaBandPeaks[b] = Fx(AUDIO_FLOOR) /\ LavaBandLevel(vReal, b) = Fx(AUDIO_FLOOR)
    /\ \A b \in TrailBandIds : trailBandPeaks[b] = TrailNoise(b)

\* the realtime pattern: what the realtime loop draws for this spectrum and peaks
RealtimePattern(j) == TrailRealtime(stripClear, vReal, trailBandPeaks)[trailLed(j)]

\* C13: with fade factor 1.0 the scroll step is a lossless shift.  Each step moves
\* the pixel at logical index i - K to index i unchanged for every i >= K and
\* leaves the realtime zone alone, exactly as if every read saw the strip from
\* before the step; so after n steps the realtime pattern stands unaltered n
\* hops from the head, and on every hop before it, and after
\* NUM_LEDS / TRAIL_REALTIME_LEDS steps it has crossed the whole strip.
C13_LosslessShift ==
    /\ [](\A h \in 0 .. Min(cycles, ScrollSteps - 1) :
             \A j \in 0 .. TRAIL_REALTIME_LEDS - 1 :
                 strip[trailLed(h * TRAIL_REALTIME_LEDS + j)] = RealtimePattern(j))
    /\ [](TrailScrollLoop(strip, TRAIL_REALTIME_LEDS, NUM_LEDS - 1, TRAIL_FADE_PCT) = TrailScroll(strip))
    /\ [][\A i \in Leds :
             strip'[trailLed(i)] = IF i >= TRAIL_REALTIME_LEDS
                                   THEN strip[trailLed(i - TRAIL_REALTIME_LEDS)]
                                   ELSE strip[trailLed(i)]]_vars

\* C13 witness: NUM_LEDS / TRAIL_REALTIME_LEDS steps have run on a pattern with a
\* dimmed pixel, over an older history, and the pattern has reached the tail
C13_Witness ==
    /\ cycles = ScrollSteps
    /\ \E j \in 0 .. TRAIL_REALTIME_LEDS - 1 :
           /\ RealtimePattern(j) # 0
           /\ RealtimePattern(j) # TRAIL_COLORS[j + 1]
           /\ strip[trailLed(NUM_LEDS - TRAIL_REALTIME_LEDS + j)] = RealtimePattern(j)
    /\ \E j \in 0 .. TRAIL_REALTIME_LEDS - 1 : RealtimePattern(j) = 0

\* no slot of the pool is active
LavaPoolEmpty(blobs) == \A i \in BlobIds : ~blobs[i].active

\* x is y up to the rounding of two fixed-point terms, scaled by scale
Rounded(x, y, scale) == x - y <= 2 * scale /\ y - x <= 2 * scale

\* blobs is pool with a blob of full intensity in slot 0 and nothing else changed
LavaFullSpawnInSlot0(pool, blobs) ==
    /\ blobs[0].active
    /\ Rounded(blobs[0].size, LAVA_SPAWN_SIZE * Pct(120), LAVA_SPAWN_SIZE)
    /\ Rounded(blobs[0].brightness, FP, 1)
    /\ blobs[0].brightness <= FP
    /\ blobs[0].position >= Fx(10)
    /\ blobs[0].position < Fx(NUM_LEDS - 10)
    /\ \A i \in BlobIds \ {0} : blobs[i] = pool[i] /\ ~blobs[i].active

\* C14: lavaSpawnBlob(1.0) on an empty pool activates a blob in slot 0 with
\* size LAVA_SPAWN_SIZE * 1.2, brightness 1.0 and a position in [10, NUM_LEDS - 10),
\* and leaves the other slots inactive; and when lavaUpdate() triggers at full
\* intensity on an empty pool, the pool it leaves is that one after one
\* lavaUpdateBlobs().
C14_SpawnOnEmptyPool ==
    /\ [](LavaPoolEmpty(lavaBlobs)
          => \A rnd \in SpawnDraws :
                 LavaFullSpawnInSlot0(lavaBlobs,
                     lavaSpawnBlob(lavaBlobs, FP, lavaDominantBand, rnd)))
    /\ [][(/\ pc = "update" /\ currentMode = MODE_LAVA
           /\ LavaPoolEmpty(lavaBlobs)
           /\ LavaTriggered(lavaAudioLevel', lavaLastAudioLevel', lavaAudioPeak')
           /\ LavaNormalize(lavaAudioLevel', lavaAudioPeak') = FP)
          => \E rnd \in SpawnDraws :
                 /\ LavaFullSpawnInSlot0(lavaBlobs,
                        lavaSpawnBlob(lavaBlobs, FP, lavaDominantBand', rnd))
                 /\ lavaBlobs' = lavaUpdateBlobs(
                        lavaSpawnBlob(lavaBlobs, FP, lavaDominantBand', rnd))]_vars

\* C14 witness: lavaUpdate() has spawned at full intensity into an empty pool: slot
\* 0 holds a blob faded and shrunk once from brightness 1.0 and size
\* LAVA_SPAWN_SIZE * 1.2, and no other slot is active
C14_Witness ==
    /\ pc = "sample" /\ currentMode = MODE_LAVA
    /\ lavaBlobs[0].active
    /\ lavaBlobs[0].brightness = (FP * LAVA_FADE_RATE_PCT) \div 100
    /\ lavaBlobs[0].size = (LAVA_SPAWN_SIZE * Pct(120) * LAVA_SHRINK_RATE_PCT) \div 100
    /\ \A i \in BlobIds \ {0} : ~lavaBlobs[i].active

\* the active blobs of the pool
LavaActive(blobs) == {i \in BlobIds : blobs[i].active}

\* slot is the one a spawn must take: the first free slot, or, with no slot
\* free, the first of those with the lowest brightness
LavaSlotToTake(blobs, slot) ==
    IF LavaActive(blobs) # BlobIds
    THEN /\ ~blobs[slot].active
         /\ \A i \in BlobIds : i < slot => blobs[i].active
    ELSE /\ \A i \in BlobIds : blobs[slot].brightness <= blobs[i].brightness
         /\ \A i \in BlobIds : i < slot => blobs[i].brightness > blobs[slot].brightness

\* C15: every trigger of lavaUpdate() spawns exactly one blob, into the first free
\* slot or, when the pool is full, into the slot of lowest brightness; in every
\* reachable state lavaSpawnBlob() would find a slot, and the active blobs never
\* outnumber LAVA_MAX_BLOBS.
C15_SpawnAlwaysPlaced ==
    /\ [](/\ LavaSpawnSlot(lavaBlobs) \in BlobIds
          /\ LavaSlotToTake(lavaBlobs, LavaSpawnSlot(lavaBlobs))
          /\ Cardinality(LavaActive(lavaBlobs)) <= LAVA_MAX_BLOBS)
    /\ [][(/\ pc = "update" /\ currentMode = MODE_LAVA
           /\ LavaTriggered(lavaAudioLevel', lavaLastAudioLevel', lavaAudioPeak'))
          => \E slot \in BlobIds, rnd \in PoolDraws :
                 /\ LavaSlotToTake(lavaBlobs, slot)
                 /\ lavaBlobs' = lavaUpdateBlobs(
                        [lavaBlobs EXCEPT ![slot] =
                            LavaNewBlob(LavaNormalize(lavaAudioLevel', lavaAudioPeak'),
                                        lavaDominantBand', rnd)])
                 /\ lavaBlobs'[slot].brightness
                        = ((Pct(50) + LavaNormalize(lavaAudioLevel', lavaAudioPeak') \div 2)
                              * LAVA_FADE_RATE_PCT) \div 100]_vars

\* C15 witness: a spawn has recycled a slot of a full pool: every slot is active,
\* slot 0 holds the newest blob and slot 1 the dimmest
C15_Witness ==
    /\ pc = "sample" /\ currentMode = MODE_LAVA
    /\ LavaActive(lavaBlobs) = BlobIds
    /\ \A i \in BlobIds \ {0} : lavaBlobs[i].brightness < lavaBlobs[0].brightness
    /\ \A i \in BlobIds \ {1} : lavaBlobs[1].brightness < lavaBlobs[i].brightness

\* C16: within a cycle only the engine of the active mode writes the frame buffer
\* and its own adaptive state.  Sampling touches neither the strip nor any engine;
\* the switch decision touches the strip and an engine only on a transition, and
\* then only the engine entered; the update draws the frame of the active engine;
\* and from the switch decision on, the adaptive state of the two engines that are
\* not the active mode (Trail band peaks and scroll timer; Lava blob pool, band
\* peaks and loudness tracker; Spectrum bin peaks) is unchanged.
C16_OnlyActiveEngineWrites ==
    [][/\ pc = "sample" => UNCHANGED <<strip, trailVars, lavaVars, spectrumBinPeaks>>
       /\ (pc = "switch" /\ currentMode' = currentMode)
              => UNCHANGED <<strip, trailVars, lavaVars, spectrumBinPeaks>>
       /\ currentMode' # MODE_TRAIL => UNCHANGED trailVars
       /\ currentMode' # MODE_LAVA => UNCHANGED lavaVars
       /\ currentMode' # MODE_SPECTRUM => UNCHANGED spectrumBinPeaks
       /\ pc = "update"
              => /\ currentMode' = currentMode
                 /\ strip' = IF currentMode = MODE_TRAIL
                             THEN TrailFrame(strip, vReal, trailBandPeaks, millis,
                                             trailLastScroll)
                             ELSE IF currentMode = MODE_LAVA THEN lavaRender(lavaBlobs')
                             ELSE SpectrumFrame(vReal, spectrumBinPeaks')]_vars

\* C16 witness: Lava has drawn a frame and moved its own state, while the Trail
\* peaks still stand where an earlier Trail cycle raised them and the Spectrum
\* peaks where setup() put them
C16_Witness ==
    /\ pc = "sample" /\ currentMode = MODE_LAVA
    /\ \E i \in BlobIds : lavaBlobs[i].active
    /\ \E p \in Leds : strip[p] # 0
    /\ lavaAudioPeak # Fx(AUDIO_PEAK_INIT)
    /\ trailBandPeaks # trailSetupPeaks
    /\ spectrumBinPeaks = spectrumSetupPeaks

\* C17: lastSpikeSwitch is the time of startup until the first spike-triggered
\* transition and the time of the latest one afterwards, and a spike-triggered
\* transition happens only MIN_MODE_TIME_MS or more after it: two consecutive
\* spike-triggered transitions are at least MIN_MODE_TIME_MS apart, and none
\* comes within MIN_MODE_TIME_MS of startup.
C17_SpikeTransitionsSpaced ==
    /\ [](lastSpikeSwitch <= millis)
    /\ [][/\ (pc = "switch" /\ switchedBy' = "spike")
                 => /\ millis - lastSpikeSwitch >= MIN_MODE_TIME_MS
                    /\ millis >= MIN_MODE_TIME_MS
                    /\ lastSpikeSwitch' = millis
                    /\ currentMode' # currentMode
          /\ ~(pc = "switch" /\ switchedBy' = "spike")
                 => lastSpikeSwitch' = lastSpikeSwitch]_vars

\* C17 witness: the second of two spike-triggered transitions has just happened
\* (two transitions have been made, and no periodic one can have come yet)
C17_Witness ==
    /\ pc = "update" /\ switchedBy = "spike"
    /\ millis < SWITCH_INTERVAL_MS
    /\ currentMode = MODE_SPECTRUM
    /\ lastSpikeSwitch = millis

\* trailUpdate() runs its scroll loop in this step
TrailScrolls ==
    /\ pc = "update" /\ currentMode = MODE_TRAIL
    /\ TrailScrollDue(millis, trailLastScroll)

\* the logical positions K .. 2K-1, next to the realtime zone
TrailFirstHop == TRAIL_REALTIME_LEDS .. TRAIL_REALTIME_LEDS + TRAIL_REALTIME_LEDS - 1

\* the logical positions from 2K on
TrailLaterHops == TRAIL_REALTIME_LEDS + TRAIL_REALTIME_LEDS .. NUM_LEDS - 1

\* C18 as stated: in a scroll step the pixels leaving the realtime zone (moving
\* into logical positions K .. 2K-1) are multiplied by the fade factor, and all
\* other pixels are copied one hop further from the head.
C18_FadeOnLeavingRealtime ==
    [][TrailScrolls
       => /\ \A i \in TrailFirstHop :
                 strip'[trailLed(i)]
                     = trailFadeColor(strip'[trailLed(i - TRAIL_REALTIME_LEDS)],
                                      TRAIL_FADE_PCT)
          /\ \A i \in TrailLaterHops :
                 strip'[trailLed(i)] = strip[trailLed(i - TRAIL_REALTIME_LEDS)]]_vars

\* C18 amended: in a scroll step the pixels leaving the realtime zone (moving into
\* logical positions K .. 2K-1) are copied unchanged from the realtime pixels just
\* drawn, and every pixel moving further (into a position from 2K on) is
\* multiplied by the fade factor; the realtime zone itself is not scrolled.
C18_FadeOnLaterHops ==
    [][TrailScrolls
       => /\ \A i \in TrailFirstHop :
                 strip'[trailLed(i)] = strip'[trailLed(i - TRAIL_REALTIME_LEDS)]
          /\ \A i \in TrailLaterHops :
                 strip'[trailLed(i)]
                     = trailFadeColor(strip[trailLed(i - TRAIL_REALTIME_LEDS)],
                                      TRAIL_FADE_PCT)
          /\ \A i \in 0 .. TRAIL_REALTIME_LEDS - 1 :
                 strip'[trailLed(i)]
                     = TrailRealtime(strip, vReal, trailBandPeaks)[trailLed(i)]]_vars

\* C18 witness: a scroll has just run for the second time on a lit band: its
\* realtime pixel stands unchanged one hop out and dimmer two hops out
C18_Witness ==
    /\ pc = "sample" /\ currentMode = MODE_TRAIL
    /\ trailLastScroll = millis
    /\ \E j \in 0 .. TRAIL_REALTIME_LEDS - 1 :
           /\ strip[trailLed(j)] # 0
           /\ strip[trailLed(TRAIL_REALTIME_LEDS + j)] = strip[trailLed(j)]
           /\ strip[trailLed(TRAIL_REALTIME_LEDS + TRAIL_REALTIME_LEDS + j)] # 0
           /\ strip[trailLed(TRAIL_REALTIME_LEDS + TRAIL_REALTIME_LEDS + j)]
                  # strip[trailLed(TRAIL_REALTIME_LEDS + j)]

\* C19: a blob is active only with brightness >= 0.02 and size >= 1, so every
\* blob lavaRender() draws has size >= 1 and brightness in [0.02, 1); and the
\* lavaUpdateBlobs() that fades a blob under the minimum brightness, or shrinks it
\* under the minimum size, deactivates it in that same cycle.
C19_ActiveBlobsAboveMinimum ==
    /\ [](\A i \in BlobIds :
              lavaBlobs[i].active
              => /\ lavaBlobs[i].brightness >= Pct(2)
                 /\ lavaBlobs[i].brightness < FP
                 /\ lavaBlobs[i].size >= Fx(1))
    /\ [][(pc = "update" /\ currentMode = MODE_LAVA)
          => \A i \in BlobIds :
                 (/\ lavaBlobs[i].active
                  /\ lavaBlobs'[i].brightness
                         = (lavaBlobs[i].brightness * LAVA_FADE_RATE_PCT) \div 100
                  /\ lavaBlobs'[i].size
                         = (lavaBlobs[i].size * LAVA_SHRINK_RATE_PCT) \div 100)
                 => (lavaBlobs'[i].active
                        <=> (/\ lavaBlobs'[i].brightness >= Pct(2)
                             /\ lavaBlobs'[i].size >= Fx(1)))]_vars

\* C19 witness: lavaUpdateBlobs() has just faded a blob under the minimum
\* brightness and deactivated it
C19_Witness ==
    /\ pc = "sample" /\ currentMode = MODE_LAVA
    /\ \E i \in BlobIds :
           /\ ~lavaBlobs[i].active
           /\ lavaBlobs[i].brightness < Pct(2)
           /\ (lavaBlobs[i].brightness * 100) \div LAVA_FADE_RATE_PCT >= Pct(2) - 1
           /\ lavaBlobs[i].size >= Fx(1)

\* slot i held an active blob that this lavaUpdate() faded and did not replace
LavaBlobKept(i) ==
    /\ lavaBlobs[i].active
    /\ lavaBlobs'[i].brightness = (lavaBlobs[i].brightness * LAVA_FADE_RATE_PCT) \div 100
    /\ lavaBlobs'[i].size = (lavaBlobs[i].size * LAVA_SHRINK_RATE_PCT) \div 100
    /\ lavaBlobs'[i].colorIndex = lavaBlobs[i].colorIndex

\* C20: a blob whose drift takes its position out of [0, NUM_LEDS) is reflected:
\* its drift changes sign, its position is clamped to the edge it crossed, and it
\* stays active unless it has faded or shrunk under the minimum; after every
\* lavaUpdateBlobs() the position of every active blob is in [0, NUM_LEDS).
C20_BlobsReflectAtEdges ==
    /\ [](\A i \in BlobIds :
              lavaBlobs[i].active
              => lavaBlobs[i].position >= 0 /\ lavaBlobs[i].position < Fx(NUM_LEDS))
    /\ [][(pc = "update" /\ currentMode = MODE_LAVA)
          => \A i \in BlobIds :
                 (/\ LavaBlobKept(i)
                  /\ \/ lavaBlobs[i].position + lavaBlobs[i].drift < 0
                     \/ lavaBlobs[i].position + lavaBlobs[i].drift >= Fx(NUM_LEDS))
                 => /\ lavaBlobs'[i].drift = -lavaBlobs[i].drift
                    /\ lavaBlobs'[i].position
                           = IF lavaBlobs[i].position + lavaBlobs[i].drift < 0
                             THEN 0 ELSE Fx(NUM_LEDS - 1)
                    /\ lavaBlobs'[i].active
                           <=> ~LavaBlobSpent(lavaBlobs'[i].brightness,
                                              lavaBlobs'[i].size)]_vars

\* C20 witness: an active blob has just been reflected at the low edge: it sits on
\* position 0 and drifts upwards
C20_Witness ==
    /\ pc = "sample" /\ currentMode = MODE_LAVA
    /\ \E i \in BlobIds :
           /\ lavaBlobs[i].active
           /\ lavaBlobs[i].position = 0
           /\ lavaBlobs[i].drift > 0

\* the three channels of a packed color
Channels(c) == <<Red(c), Green(c), Blue(c)>>

\* the color that the blob in slot b adds to pixel p: LAVA_COLORS[colorIndex] * falloff
LavaContribution(blobs, p, b) ==
    LET color == LAVA_COLORS[blobs[b].colorIndex + 1]
        falloff == LavaFalloff(p, blobs[b].position, blobs[b].size, blobs[b].brightness)
    IN  <<ScaleChannel(Red(color), falloff), ScaleChannel(Green(color), falloff),
          ScaleChannel(Blue(color), falloff)>>

\* the blob in slot b is drawn on pixel p
LavaDrawnOn(blobs, p, b) == blobs[b].active /\ LavaCovers(blobs[b], p)

\* C21: Lava's additive compositing saturates.  For every pixel, every blob drawn
\* on it and every channel, lavaAddColorToPixel() stores min(255, old + new): the
\* stored value never exceeds 255 and is never under the value the pixel had,
\* however many blobs overlap; and the frame in the strip is the outcome.
C21_AdditiveSaturates ==
    (pc = "sample" /\ currentMode = MODE_LAVA)
    => \A p \in Leds :
           /\ strip[p] = LavaPixelAfter(lavaBlobs, p, LAVA_MAX_BLOBS)
           /\ \A b \in BlobIds :
                  LavaDrawnOn(lavaBlobs, p, b)
                  => \A ch \in 1 .. 3 :
                         LET old == Channels(LavaPixelAfter(lavaBlobs, p, b))[ch]
                             new == LavaContribution(lavaBlobs, p, b)[ch]
                             stored == Channels(LavaPixelAfter(lavaBlobs, p, b + 1))[ch]
                         IN  /\ stored = Min(255, old + new)
                             /\ stored <= 255
                             /\ stored >= old

\* C21 witness: three blobs overlap on a pixel, and the sum of a channel passed 255
\* and was stored as 255
C21_Witness ==
    /\ pc = "sample" /\ currentMode = MODE_LAVA
    /\ \E p \in Leds :
           /\ Cardinality({b \in BlobIds : LavaDrawnOn(lavaBlobs, p, b)}) >= 3
           /\ \E b \in BlobIds :
                  /\ LavaDrawnOn(lavaBlobs, p, b)
                  /\ Red(LavaPixelAfter(lavaBlobs, p, b))
                         + LavaContribution(lavaBlobs, p, b)[1] > 255
           /\ Red(strip[p]) = 255

\* the slots in which lavaUpdate() left something else than the fading of the
\* blob it found there: the slots it spawned into
LavaSpawnedSlots == {i \in BlobIds : lavaBlobs'[i] # lavaUpdateBlobs(lavaBlobs)[i]}

\* C22: lavaUpdate() spawns only on an attack: only if the normalized loudness is
\* above LAVA_TRIGGER_THRESHOLD and more than 0.1 above the previous normalized
\* loudness, hence never in a cycle where the Lava loudness level did not rise;
\* it spawns at most one blob per cycle, and no other step spawns.
C22_SpawnOnlyOnAttack ==
    [][/\ (pc = "update" /\ currentMode = MODE_LAVA)
              => /\ Cardinality(LavaSpawnedSlots) <= 1
                 /\ LavaSpawnedSlots # {}
                        => /\ LavaNormalize(lavaAudioLevel', lavaAudioPeak') > Pct(30)
                           /\ LavaNormalize(lavaAudioLevel', lavaAudioPeak')
                                  > LavaNormalize(lavaAudioLevel, lavaAudioPeak') + Pct(10)
                           /\ lavaAudioLevel' > lavaAudioLevel
                           /\ lavaLastAudioLevel' = lavaAudioLevel
       /\ ~(pc = "update" /\ currentMode = MODE_LAVA)
              => \A i \in BlobIds : lavaBlobs'[i].active => lavaBlobs[i].active]_vars

\* C22 witness: a loud sound has held on through a Lava cycle: the normalized
\* loudness is over the threshold but has not risen, and the cycle spawned
\* nothing next to the blob of the attack, which has faded twice
C22_Witness ==
    /\ pc = "sample" /\ currentMode = MODE_LAVA
    /\ LavaNormalize(lavaAudioLevel, lavaAudioPeak) > Pct(30)
    /\ lavaAudioLevel = lavaLastAudioLevel
    /\ Cardinality({i \in BlobIds : lavaBlobs[i].active}) = 1
    /\ \A i \in BlobIds :
           lavaBlobs[i].active
           => lavaBlobs[i].brightness < (FP * LAVA_FADE_RATE_PCT) \div 100

\* the clamped intensity spectrumUpdate() computed for the LED at stride position p
SpectrumIntensityAt(p) ==
    SpectrumLedIntensity(vReal, spectrumBinPeaks, p \div SPECTRUM_RESOLUTION)

\* p is i * SPECTRUM_RESOLUTION for an i with 0 <= i < NUM_LEDS / SPECTRUM_RESOLUTION
SpectrumStride(p) ==
    /\ p % SPECTRUM_RESOLUTION = 0
    /\ p \div SPECTRUM_RESOLUTION < NUM_LEDS \div SPECTRUM_RESOLUTION

\* C23: after spectrumUpdate() a pixel is lit if and only if it is an active stride
\* position whose clamped intensity is >= 0.08; every other pixel is off.
C23_LitIffVisibleStride ==
    (pc = "sample" /\ currentMode = MODE_SPECTRUM)
    => \A p \in Leds :
           strip[p] # 0 <=> (SpectrumStride(p) /\ SpectrumIntensityAt(p) >= Pct(8))

\* C23 witness: spectrumUpdate() has lit one stride position and left another off
\* whose intensity is positive, under the cutoff, and enough for a glow
C23_Witness ==
    /\ pc = "sample" /\ currentMode = MODE_SPECTRUM
    /\ \E p \in Leds : strip[p] # 0
    /\ \E p \in Leds :
           /\ SpectrumStride(p)
           /\ strip[p] = 0
           /\ SpectrumIntensityAt(p) < Pct(8)
           /\ spectrumIntensityToColor(SpectrumIntensityAt(p)) # 0

\* C24: no division by zero: in every reachable state every divisor of every
\* engine and of the spike detector (a band's bin count, peak - floor in the spike
\* detector, in the Lava normalizations and in the Spectrum intensity, the size of
\* a rendered blob, SPECTRUM_ACTIVE_LEDS - 1) is non-zero whenever the code
\* reaches its division.
C24_NoDivisionByZero ==
    \A d \in GlobalDivisions \cup TrailDivisions \cup LavaDivisions \cup SpectrumDivisions :
        d.executes => d.divisor # 0

\* C24 witness: Lava has rendered a blob, dividing by its size, with the spike
\* detector and the loudness quotient of lavaCheckTrigger() dividing too, while
\* a band peak of Lava sits on the floor and its quotient is skipped
C24_Witness ==
    /\ pc = "sample" /\ currentMode = MODE_LAVA
    /\ \E i \in BlobIds : lavaBlobs[i].active /\ LavaStartLed(lavaBlobs[i]) <= LavaEndLed(lavaBlobs[i])
    /\ globalAudioPeak > Fx(AUDIO_FLOOR)
    /\ lavaAudioPeak > Fx(AUDIO_FLOOR)
    /\ \E i \in BlobIds : ~lavaBlobs[i].active /\ lavaBlobs[i].size = 0

\* C25: every index is in bounds: in every reachable state every pixel index an
\* engine writes or reads lies in [0, NUM_LEDS - 1], every spectrum bin index
\* read lies in [1, NUM_BINS - 1], so bin 0 is never read, and every blob
\* colorIndex lies in [0, LAVA_NUM_BANDS - 1].
C25_IndicesInBounds ==
    /\ PixelIndices \subseteq 0 .. NUM_LEDS - 1
    /\ BinIndices \subseteq 1 .. NUM_BINS - 1
    /\ ColorIndices \subseteq 0 .. LAVA_NUM_BANDS - 1

\* C25 witness: Lava has rendered a blob that reaches past the first pixel of
\* the strip, so its pixel loop starts at pixel 0, clamped
C25_Witness ==
    /\ pc = "sample" /\ currentMode = MODE_LAVA
    /\ \E i \in BlobIds :
           /\ lavaBlobs[i].active
           /\ Trunc(lavaBlobs[i].position - lavaBlobs[i].size) < 0
           /\ LavaStartLed(lavaBlobs[i]) = 0
           /\ strip[0] # 0

\* C26: every transition, periodic or spike, restarts the periodic timer:
\* lastSwitch is the clock of the most recent change of mode (of startup before
\* the first), checkModeSwitch() makes a periodic transition iff at least
\* SWITCH_INTERVAL_MS have passed since then, and so no mode has been active for
\* SWITCH_INTERVAL_MS at the end of a cycle, nor for SWITCH_INTERVAL_MS plus the
\* duration of the cycle when the cycle reads the clock.
C26_TransitionRestartsTimer ==
    /\ [](pc # "switch" => millis - lastSwitch < SWITCH_INTERVAL_MS)
    /\ [][/\ currentMode' # currentMode => lastSwitch' = millis'
          /\ currentMode' = currentMode => lastSwitch' = lastSwitch
          /\ pc = "switch" =>
                 /\ switchedBy' = "periodic" <=> millis - lastSwitch >= SWITCH_INTERVAL_MS
                 /\ switchedBy' # "none" <=> currentMode' # currentMode
          /\ pc = "sample" =>
                 millis' - lastSwitch' < SWITCH_INTERVAL_MS + (millis' - millis)]_vars

\* C26 witness: a periodic transition made SWITCH_INTERVAL_MS after a spike
\* transition, later than SWITCH_INTERVAL_MS after startup
C26_Witness ==
    /\ pc = "update"
    /\ switchedBy = "periodic"
    /\ lastSpikeSwitch > 0
    /\ dwell = SWITCH_INTERVAL_MS
    /\ millis = lastSpikeSwitch + SWITCH_INTERVAL_MS
    /\ lastSwitch = millis

\* the periodic timeout and a spike with an elapsed dwell time fall in one cycle
SwitchesCoincide ==
    /\ millis - lastSwitch >= SWITCH_INTERVAL_MS
    /\ millis - lastSpikeSwitch >= MIN_MODE_TIME_MS
    /\ detectAudioSpike

\* C27: at most one mode transition per cycle: checkModeSwitch() keeps the mode
\* or advances it by one and no other step of loop() changes it; when the
\* periodic timeout and a spike with an elapsed dwell time coincide the mode
\* advances exactly once, by the periodic branch, lastSpikeSwitch unchanged;
\* and the engine that renders in the cycle is the one of the mode
\* checkModeSwitch() left, the newly entered one after a transition.
C27_OneTransitionPerCycle ==
    [][/\ pc # "switch" => currentMode' = currentMode
       /\ pc = "switch" =>
              /\ currentMode' \in {currentMode, NextModeOf(currentMode)}
              /\ SwitchesCoincide =>
                     /\ currentMode' = NextModeOf(currentMode)
                     /\ switchedBy' = "periodic"
                     /\ lastSpikeSwitch' = lastSpikeSwitch
                     /\ lastSwitch' = millis
       /\ pc = "update" =>
              /\ currentMode = MODE_TRAIL =>
                     /\ strip' = TrailFrame(strip, vReal, trailBandPeaks, millis,
                                            trailLastScroll)
                     /\ UNCHANGED <<lavaVars, spectrumBinPeaks>>
              /\ currentMode = MODE_LAVA =>
                     /\ strip' = lavaRender(lavaBlobs')
                     /\ UNCHANGED <<trailVars, spectrumBinPeaks>>
              /\ currentMode = MODE_SPECTRUM =>
                     /\ strip' = SpectrumFrame(vReal, spectrumBinPeaks')
                     /\ UNCHANGED <<trailVars, lavaVars>>]_vars

\* C27 witness: the end of a cycle in which the periodic timeout and a spike
\* coincided: the transition was the periodic one, into Lava, the dwell timer of
\* the spike branch still stands at startup, and Lava has rendered a blob
C27_Witness ==
    /\ pc = "sample"
    /\ switchedBy = "periodic"
    /\ dwell >= SWITCH_INTERVAL_MS
    /\ lastSwitch = millis
    /\ detectAudioSpike
    /\ lastSpikeSwitch = 0
    /\ currentMode = MODE_LAVA
    /\ \E p \in Leds : strip[p] # 0

=============================================================================
